---- MODULE Spec2Model ----
(***************************************************************************)
(* A model of reV's project-point partitioning (reV/config/config.py:      *)
(* ProjectPoints, ExecutionControl) and of its single-node parallel job    *)
(* manager (reV/utilities/execution.py: SmartParallelJob).                 *)
(*                                                                         *)
(* Python values that may be None, an int or the string 'inf' are records  *)
(* [t, v]; a dict is a record with a field "keys" holding the keys that    *)
(* are present.  Positions are Python positions (0-based); sequences are   *)
(* TLA+ sequences (1-based).                                               *)
(***************************************************************************)
EXTENDS Integers, Sequences, FiniteSets, TLC

\* ------------------------------------------------------------------ bounds
MaxCsv == 3          \* site identifiers a csv project-points file draws from
MaxStop == 4         \* largest 'stop' of a slice configuration
MaxMeta == 3         \* largest length of the resource meta dataset
MaxSpc == 2          \* largest explicit sites_per_core
MaxFiles == 2        \* largest number of resource files
MaxIdx == 3          \* largest i0 / i1 handed to a direct split
MaxChunk == 3        \* largest chunk size of a partition series
MaxUnits == 4        \* units an execution_iter yields
MaxIters == 2        \* iter() calls on one ExecutionControl
MaxRows == 2         \* rows of a qstat / squeue printout
MaxWorkers == 2      \* largest n_workers argument and cpu count

\* ------------------------------------------------------------ python values
PyNone == [t |-> "None", v |-> 0]
PyInt(n) == [t |-> "int", v |-> n]
PyInf == [t |-> "str", v |-> 0]

\* bool(x) of None, an int, or a non-empty string
Truthy(x) == (x.t = "int" /\ x.v # 0) \/ x.t = "str"

Min(a, b) == IF a <= b THEN a ELSE b

\* math.ceil(a / b) for a >= 0, b >= 1
CeilDiv(a, b) == (a + b - 1) \div b

\* list(range(a, b, s)) for s >= 1
RECURSIVE Range(_, _, _)
Range(a, b, s) == IF a >= b THEN <<>> ELSE <<a>> \o Range(a + s, b, s)

\* slice.indices that takes every slice from position 0
SliceIndices_StartZero(sl, len) ==
    [start |-> 0,
     stop  |-> IF sl.stop.t = "None" THEN len ELSE Min(sl.stop.v, len),
     step  |-> IF sl.step.t = "None" THEN 1 ELSE sl.step.v]

\* slice(start, stop, step).indices(len) for start >= 0, stop >= 0, step >= 1
SliceIndices(sl, len) ==
    [start |-> IF sl.start.t = "None" THEN 0 ELSE Min(sl.start.v, len),
     stop  |-> IF sl.stop.t = "None" THEN len ELSE Min(sl.stop.v, len),
     step  |-> IF sl.step.t = "None" THEN 1 ELSE sl.step.v]

\* seq[i0:i1] with the end position taken as inclusive
PySlice_EndInclusive(seq, i0, i1) == SubSeq(seq, i0 + 1, Min(i1 + 1, Len(seq)))

\* seq[i0:i1] starting one position early
PySlice_StartEarly(seq, i0, i1) ==
    SubSeq(seq, IF i0 = 0 THEN 1 ELSE i0, Min(i1, Len(seq)))

\* seq[i0:i1] for i0 >= 0, i1 >= 0
PySlice(seq, i0, i1) == SubSeq(seq, i0 + 1, Min(i1, Len(seq)))

\* ------------------------------------------------------------ configurations
SiteIds == 11..(10 + MaxCsv)
\* the keys of sam_configs, sorted
avail_configs == <<"sam_a", "sam_b">>

IsInjective(s) == \A a, b \in 1..Len(s) : a # b => s[a] # s[b]

\* the csv tables: rows of (site, config) with unique sites, in any order
CsvSites == {s \in UNION {[1..n -> SiteIds] : n \in 0..MaxCsv} : IsInjective(s)}
CsvConfig(site) == avail_configs[1 + (site % Len(avail_configs))]
CsvTables ==
    {[k \in 1..Len(s) |-> [sites |-> s[k], configs |-> CsvConfig(s[k])]] : s \in CsvSites}

Starts == {PyNone, PyInt(1)}
Stops == {PyNone, PyInf} \cup {PyInt(n) : n \in 0..MaxStop}
Steps == {PyNone, PyInt(1), PyInt(2)}

OneSlice == [start |-> PyInt(0), stop |-> PyInt(2), step |-> PyInt(1)]

\* project_points section of the configuration: a dict with optional keys
\* 'file' and 'stop' ('start' and 'step' come with 'stop'); "table" is the
\* content of the csv file that 'file' names
SliceConfigs ==
    {[keys |-> {"stop"}, file_none |-> FALSE, table |-> <<>>,
      start |-> a, stop |-> b, step |-> c] : a \in Starts, b \in Stops, c \in Steps}
IsAscending(tb) == \A k \in 1..(Len(tb) - 1) : tb[k].sites < tb[k + 1].sites
FileConfigs ==
    {c \in [keys : {{"file"}, {"file", "stop"}}, file_none : {FALSE}, table : CsvTables,
            start : {OneSlice.start}, stop : {OneSlice.stop}, step : {OneSlice.step}] :
        "stop" \in c.keys => IsAscending(c.table)}
NullConfigs ==
    {[keys |-> k, file_none |-> ("file" \in k), table |-> <<>>,
      start |-> OneSlice.start, stop |-> OneSlice.stop, step |-> OneSlice.step]
        : k \in {{}, {"file"}, {"file", "stop"}}}
ProjectPointConfigs == SliceConfigs \cup FileConfigs \cup NullConfigs

NodeCounts == {2}
PpnCounts == {1, 2}
\* execution_control section of the configuration
ExecConfigs ==
    {c \in [keys : SUBSET {"nodes", "ppn", "sites_per_core"},
            nodes : NodeCounts, ppn : PpnCounts,
            sites_per_core : {PyNone} \cup {PyInt(x) : x \in 0..MaxSpc}] :
        /\ "nodes" \notin c.keys => c.nodes = 1
        /\ "ppn" \notin c.keys => c.ppn = 1
        /\ "sites_per_core" \notin c.keys => c.sites_per_core = PyNone}

\* the meta lengths tried with a configuration: every one for a slice whose
\* stop is None, the largest for the others
MetaLens(cfg) ==
    IF "stop" \in cfg.keys /\ "file" \notin cfg.keys /\ cfg.stop = PyNone
    THEN 0..MaxMeta ELSE {MaxMeta}

VARIABLES
    config_pp,        \* the project-points dict shared by every ProjectPoints
    config_exec,      \* the execution_control dict
    res_files,        \* number of resource files in the list
    meta_len,         \* shape[0] of the first resource file's meta dataset
    stage,            \* "config" before construction, then "built"
    project_points,   \* the root ProjectPoints
    oracle_calls,     \* number of reads of the meta length
    warnings,         \* the ConfigWarnings issued so far
    n_points,         \* ProjectPoints instances constructed so far
    iter_i,           \* ExecutionControl._i (-1: no iter() yet)
    last_site_ind,    \* ExecutionControl._last_site_ind
    last_inc,         \* the split_increment used by the last __next__
    yielded,          \* the ExecutionControls returned since the last iter()
    prev_yielded,     \* <<those returned by the last iteration that ran to its end>>
    last_out,         \* outcome of the last __iter__/__next__ call
    n_iter,           \* iter() calls so far
    sub1,             \* result of a direct split of the root
    sub2,             \* result of a direct split of sub1
    part,             \* a series of splits at [0,c), [c,2c), ...
    job_args,         \* arguments of SmartParallelJob(obj, execution_iter, ...)
    cpu_count,        \* os.cpu_count()
    pc,               \* where the control thread of the job is
    exc,              \* the exception run() or the constructor ended with
    n_workers,        \* SmartParallelJob._n_workers
    i,                \* units taken from execution_iter so far
    futures,          \* the pending futures, by unit, in submission order
    fstate,           \* per unit: "new", "pending", "finished", "error"
    force_flush,      \* the force_flush argument of the gather under way
    obj_out,          \* the sink's accumulator obj.out (<<>>: None)
    disk,             \* what obj.flush() has written
    submitted,        \* the units handed to client.submit, in order
    rounds,           \* one record per completed gather
    restarts,         \* client.restart() calls
    completed,        \* the units whose obj.run returned, in the order they did
    q_args,           \* arguments of the PBS / SLURM call
    q_pc,             \* where the PBS / SLURM call is
    q_path,           \* make_path(stdout_path) was called
    q_rows,           \* the rows of the last qstat / squeue printout
    q_cmds,           \* the commands given to SubprocessManager.submit, in order,
                      \* each with the error stream it left
    q_sh,             \* the .sh file of the job exists
    q_writes,         \* make_sh calls
    q_warns,          \* warnings raised by qsub / sbatch
    q_ret,            \* the (out, err) pair qsub / sbatch returned
    q_obj,            \* the attributes __init__ has set on the object
    q_exc,            \* the exception the call ended with
    w_hours,          \* the hours argument of walltime, in HourParts-ths of an hour
    w_out,            \* the string walltime returned (<<>>: not called yet)
    sas_sites,        \* the site list of the ProjectPoints asked for sites_as_slice
    sas_out,          \* what sites_as_slice returned or raised
    child_k,          \* which of the yielded ExecutionControls is iterated (0: none)
    child_i,          \* its _i (-1: no iter() yet)
    child_out,        \* outcome of the last __iter__/__next__ call on it
    ef_iter,          \* execute_futures: the items execution_iter yields
    ef_pc,            \* execute_futures: position in the function
    ef_futures,       \* the futures list: the state of each future
    ef_order,         \* the futures in the order the workers completed them
    ef_gathers,       \* calls of client.gather so far
    ef_ret            \* what execute_futures returned or raised

pvars == <<config_pp, config_exec, res_files, meta_len, stage, project_points,
           oracle_calls, warnings, n_points>>
ivars == <<iter_i, last_site_ind, last_inc, yielded, prev_yielded, last_out,
           n_iter>>
svars == <<sub1, sub2, part>>
jvars == <<job_args, cpu_count, pc, exc, n_workers, i, futures, fstate,
           force_flush, obj_out, disk, submitted, rounds, restarts, completed>>
qvars == <<q_args, q_pc, q_path, q_rows, q_cmds, q_sh, q_writes, q_warns, q_ret,
           q_obj, q_exc>>
\* the variables of the calls modelled on their own
evars == <<ef_iter, ef_pc, ef_futures, ef_order, ef_gathers, ef_ret>>
wvars == <<w_hours, w_out, sas_sites, sas_out, child_k, child_i, child_out, evars>>
vars == <<pvars, ivars, svars, jvars, qvars, wvars>>

\* ------------------------------------------------------------ ProjectPoints
\* a ProjectPoints before parse_project_points has set anything
EmptyPoints == [defined |-> FALSE, is_slice |-> FALSE, sites |-> <<>>, df |-> <<>>]

\* a sites setter that opens the resource twice to resolve a missing stop
SitesSetter_ReadsTwice(sl, meta) ==
    IF Truthy(sl.stop)
    THEN LET x == SliceIndices(sl, sl.stop.v)
         IN [sites |-> Range(x.start, x.stop, x.step), oracle |-> 0,
             is_slice |-> FALSE]
    ELSE LET x == SliceIndices(sl, meta)
         IN [sites |-> Range(x.start, x.stop, x.step), oracle |-> 2,
             is_slice |-> FALSE]

\* a sites setter that keeps a slice without stop as a slice
SitesSetter_KeepsSlice(sl, meta) ==
    IF Truthy(sl.stop)
    THEN LET x == SliceIndices(sl, sl.stop.v)
         IN [sites |-> Range(x.start, x.stop, x.step), oracle |-> 0,
             is_slice |-> FALSE]
    ELSE [sites |-> <<>>, oracle |-> 0, is_slice |-> TRUE]

\* the sites setter: the list it stores (a slice always becomes a list) and
\* how often it read the meta length
SitesSetter(sl, meta) ==
    IF Truthy(sl.stop)
    THEN LET x == SliceIndices(sl, sl.stop.v)
         IN [sites |-> Range(x.start, x.stop, x.step), oracle |-> 0,
             is_slice |-> FALSE]
    ELSE LET x == SliceIndices(sl, meta)
         IN [sites |-> Range(x.start, x.stop, x.step), oracle |-> 1,
             is_slice |-> FALSE]

\* df[df['sites'].isin(sites)]
DfIsin(df, sites) ==
    SelectSeq(df, LAMBDA r : \E k \in 1..Len(sites) : sites[k] = r.sites)

csv_project_points(cfg) ==
    [defined |-> TRUE, is_slice |-> FALSE,
     sites |-> [k \in 1..Len(cfg.table) |-> cfg.table[k].sites],
     df |-> cfg.table]

\* slice_project_points: the points, the dict as it leaves it, the oracle reads
slice_project_points(cfg, meta) ==
    LET stop == IF cfg.stop = PyInf THEN PyNone ELSE cfg.stop
        r == SitesSetter([start |-> cfg.start, stop |-> stop, step |-> cfg.step], meta)
    IN [pp |-> [defined |-> TRUE, is_slice |-> r.is_slice, sites |-> r.sites,
                df |-> [k \in 1..Len(r.sites) |->
                          [sites |-> r.sites[k], configs |-> avail_configs[1]]]],
        cfg |-> [cfg EXCEPT !.stop = stop],
        oracle |-> r.oracle,
        warns |-> IF Len(avail_configs) > 1 THEN {"multiple_sam_configs"} ELSE {}]

\* a parse_project_points that prefers the slice when both are given
NewProjectPoints_SliceWins(cfg, meta) ==
    IF "stop" \in cfg.keys
    THEN slice_project_points(cfg, meta)
    ELSE IF "file" \in cfg.keys /\ ~cfg.file_none
         THEN [pp |-> csv_project_points(cfg), cfg |-> cfg, oracle |-> 0,
               warns |-> {}]
         ELSE [pp |-> EmptyPoints, cfg |-> cfg, oracle |-> 0, warns |-> {}]

\* ProjectPoints.__init__ with parse_project_points
NewProjectPoints(cfg, meta) ==
    IF "file" \in cfg.keys
    THEN IF ~cfg.file_none
         THEN [pp |-> csv_project_points(cfg), cfg |-> cfg, oracle |-> 0,
               warns |-> IF "stop" \in cfg.keys THEN {"file_and_slice"} ELSE {}]
         ELSE [pp |-> EmptyPoints, cfg |-> cfg, oracle |-> 0, warns |-> {}]
    ELSE IF "stop" \in cfg.keys
         THEN slice_project_points(cfg, meta)
         ELSE [pp |-> EmptyPoints, cfg |-> cfg, oracle |-> 0, warns |-> {}]

\* a split that writes the end of its range into the configuration dict
ProjectPointsSplit_WritesStop(i0, i1, cfg, config_df, meta) ==
    LET c == NewProjectPoints(cfg, meta)
        s == PySlice(c.pp.sites, i0, i1)
    IN [err |-> IF c.pp.defined THEN "" ELSE "AttributeError",
        cfg |-> [c.cfg EXCEPT !.stop = PyInt(i1)],
        oracle |-> c.oracle, warns |-> c.warns,
        pp |-> [defined |-> c.pp.defined, is_slice |-> FALSE, sites |-> s,
                df |-> DfIsin(config_df, s)]]

\* split: an exception leaves the new instance as it was constructed
SplitRaises(c, e) ==
    [err |-> e, pp |-> c.pp, cfg |-> c.cfg, oracle |-> c.oracle, warns |-> c.warns]

\* split, the branch for sites held as a slice: the slice must have a stop or
\* a unit step, and the new sites are a range counted from its start
SplitOfSlice(i0, i1, c) ==
    IF c.cfg.stop = PyNone /\ c.cfg.step # PyInt(1) /\ c.cfg.step # PyNone
    THEN SplitRaises(c, "ValueError")
    ELSE IF c.cfg.start = PyNone
    THEN SplitRaises(c, "TypeError")
    ELSE [err |-> "", cfg |-> c.cfg, oracle |-> c.oracle, warns |-> c.warns,
          pp |-> [defined |-> TRUE, is_slice |-> FALSE,
                  sites |-> Range(c.cfg.start.v + i0, c.cfg.start.v + (i1 - i0), 1),
                  df |-> c.pp.df]]

\* ProjectPoints.split(i0, i1, config_pp, sam_configs, config_df, ...)
ProjectPointsSplit(i0, i1, cfg, config_df, meta) ==
    LET c == NewProjectPoints(cfg, meta)
    IN IF ~c.pp.defined
       THEN SplitRaises(c, "AttributeError")
       ELSE IF c.pp.is_slice
       THEN SplitOfSlice(i0, i1, c)
       ELSE LET s == PySlice(c.pp.sites, i0, i1)
            IN [err |-> "", cfg |-> c.cfg, oracle |-> c.oracle, warns |-> c.warns,
                pp |-> [defined |-> TRUE, is_slice |-> FALSE, sites |-> s,
                        df |-> DfIsin(config_df, s)]]

\* --------------------------------------------------------- ExecutionControl
nodes(raw) == IF "nodes" \in raw.keys THEN raw.nodes ELSE 1
ppn(raw) == IF "ppn" \in raw.keys THEN raw.ppn ELSE 1
p_tot(raw) == nodes(raw) * ppn(raw)

\* n_sites: an int, or 'inf' for a slice without stop
n_sites(pp, nfiles) ==
    IF pp.is_slice THEN PyInf ELSE PyInt(Len(pp.sites) * nfiles)

DefaultSitesPerCore == 100

\* sites_per_core derived from the number of sites alone
sites_per_core_SitesOnly(raw, pp, nfiles) ==
    IF "sites_per_core" \in raw.keys /\ Truthy(raw.sites_per_core)
    THEN [value |-> raw.sites_per_core.v, warn |-> FALSE]
    ELSE [value |-> CeilDiv(Len(pp.sites), p_tot(raw)), warn |-> FALSE]

\* sites_per_core that takes the default whenever no value is given
sites_per_core_Fallback(raw, pp, nfiles) ==
    IF "sites_per_core" \in raw.keys /\ Truthy(raw.sites_per_core)
    THEN [value |-> raw.sites_per_core.v, warn |-> FALSE]
    ELSE [value |-> DefaultSitesPerCore, warn |-> TRUE]

\* sites_per_core: [value, warn]
sites_per_core(raw, pp, nfiles) ==
    LET n == n_sites(pp, nfiles)
        derived == [value |-> CeilDiv(n.v, p_tot(raw)), warn |-> FALSE]
        default == [value |-> DefaultSitesPerCore, warn |-> TRUE]
    IN IF "sites_per_core" \in raw.keys
       THEN IF Truthy(raw.sites_per_core)
            THEN [value |-> raw.sites_per_core.v, warn |-> FALSE]
            ELSE IF raw.sites_per_core = PyNone /\ n = PyInf THEN default ELSE derived
       ELSE IF n = PyInf THEN default ELSE derived

split_increment(raw, pp, nfiles) == sites_per_core(raw, pp, nfiles)

\* N, the iterator limit
N(raw, pp, nfiles) == CeilDiv(n_sites(pp, nfiles).v, p_tot(raw))

\* the level of the ExecutionControl that Config builds
RootLevel == "supervisor"
split_levels == [supervisor |-> "core"]

\* a split that tags the sub ExecutionControl with the level of the root
ExecutionControlSplit_KeepsLevel(raw, nfiles, i0, i1, pp, cfg, meta, level) ==
    LET r == ProjectPointsSplit(i0, i1, cfg, pp.df, meta)
    IN [err |-> r.err, cfg |-> r.cfg, oracle |-> r.oracle, warns |-> r.warns,
        sub |-> [raw |-> raw, res_files |-> nfiles, level |-> RootLevel,
                 project_points |-> r.pp]]

\* a split that hands the sub ExecutionControl an empty resource file list
ExecutionControlSplit_NoResFiles(raw, nfiles, i0, i1, pp, cfg, meta, level) ==
    LET r == ProjectPointsSplit(i0, i1, cfg, pp.df, meta)
    IN [err |-> r.err, cfg |-> r.cfg, oracle |-> r.oracle, warns |-> r.warns,
        sub |-> [raw |-> raw, res_files |-> 0, level |-> level,
                 project_points |-> r.pp]]

\* ExecutionControl.split: the sub ExecutionControl (or the error raised)
ExecutionControlSplit(raw, nfiles, i0, i1, pp, cfg, meta, level) ==
    LET r == ProjectPointsSplit(i0, i1, cfg, pp.df, meta)
    IN [err |-> r.err, cfg |-> r.cfg, oracle |-> r.oracle, warns |-> r.warns,
        sub |-> [raw |-> raw, res_files |-> nfiles, level |-> level,
                 project_points |-> r.pp]]

\* ------------------------------------------------------------------ actions
InitPoints ==
    /\ config_pp \in ProjectPointConfigs
    /\ res_files \in 1..MaxFiles
    /\ meta_len \in MetaLens(config_pp)
    /\ stage = "config"
    /\ project_points = EmptyPoints
    /\ oracle_calls = 0
    /\ warnings = {}
    /\ n_points = 0

IdleIter ==
    /\ iter_i = -1
    /\ last_site_ind = 0
    /\ last_inc = 0
    /\ yielded = <<>>
    /\ prev_yielded = <<>>
    /\ last_out = "none"
    /\ n_iter = 0

EmptyControl == [raw |-> [keys |-> {}, nodes |-> 1, ppn |-> 1,
                          sites_per_core |-> PyNone],
                 res_files |-> 0, level |-> "", project_points |-> EmptyPoints]
NoSub == [made |-> FALSE, err |-> "", i0 |-> 0, i1 |-> 0, sub |-> EmptyControl]
NoPart == [c |-> 0, pos |-> 0, parts |-> <<>>]

IdleSplit ==
    /\ sub1 = NoSub
    /\ sub2 = NoSub
    /\ part = NoPart

\* Config.execution_control: build the root ProjectPoints and ExecutionControl
Construct ==
    /\ stage = "config"
    /\ LET c == NewProjectPoints(config_pp, meta_len)
       IN /\ project_points' = c.pp
          /\ config_pp' = c.cfg
          /\ oracle_calls' = oracle_calls + c.oracle
          /\ warnings' = warnings \cup c.warns
    /\ n_points' = n_points + 1
    /\ stage' = "built"
    /\ UNCHANGED <<config_exec, res_files, meta_len, ivars, svars, jvars, qvars, wvars>>

\* an __iter__ that leaves the site cursor where the last iteration ended
Iter_KeepsCursor ==
    /\ stage = "built"
    /\ n_iter < MaxIters
    /\ n_iter' = n_iter + 1
    /\ iter_i' = 0
    /\ prev_yielded' = IF last_out = "StopIteration" THEN <<yielded>> ELSE prev_yielded
    /\ yielded' = <<>>
    /\ last_out' = IF project_points.defined THEN "iter" ELSE "AttributeError"
    /\ UNCHANGED <<pvars, last_site_ind, last_inc, svars, jvars, qvars, wvars>>

\* ExecutionControl.__iter__ on the root
Iter ==
    /\ stage = "built"
    /\ n_iter < MaxIters
    /\ n_iter' = n_iter + 1
    /\ iter_i' = 0
    /\ last_site_ind' = 0
    /\ prev_yielded' = IF last_out = "StopIteration" THEN <<yielded>> ELSE prev_yielded
    /\ yielded' = <<>>
    /\ last_out' = IF project_points.defined THEN "iter" ELSE "AttributeError"
    /\ UNCHANGED <<pvars, last_inc, svars, jvars, qvars, wvars>>

\* a __next__ that returns the sub ExecutionControl even when it is empty
NextStep_YieldsEmpty ==
    /\ stage = "built"
    /\ iter_i >= 0
    /\ last_out \in {"iter", "yield", "StopIteration"}
    /\ IF iter_i < N(config_exec, project_points, res_files)
       THEN LET inc == split_increment(config_exec, project_points, res_files)
                i0 == last_site_ind
                i1 == i0 + inc.value
                r == ExecutionControlSplit(config_exec, res_files, i0, i1,
                                           project_points, config_pp, meta_len,
                                           split_levels[RootLevel])
            IN /\ iter_i' = iter_i + 1
               /\ last_site_ind' = i1
               /\ last_inc' = inc.value
               /\ config_pp' = r.cfg
               /\ oracle_calls' = oracle_calls + r.oracle
               /\ n_points' = n_points + 1
               /\ warnings' = warnings \cup r.warns
                                \cup (IF inc.warn THEN {"sites_per_core_default"} ELSE {})
               /\ last_out' = "yield"
               /\ yielded' = Append(yielded, r.sub)
       ELSE /\ last_out' = "StopIteration"
            /\ UNCHANGED <<iter_i, last_site_ind, last_inc, yielded, config_pp,
                           oracle_calls, warnings, n_points>>
    /\ UNCHANGED <<config_exec, res_files, meta_len, stage, project_points,
                   prev_yielded, n_iter, svars, jvars, qvars, wvars>>

\* a __next__ that rewinds the cursor when it reaches the limit
NextStep_Rewinds ==
    /\ stage = "built"
    /\ iter_i >= 0
    /\ last_out \in {"iter", "yield", "StopIteration"}
    /\ IF iter_i < N(config_exec, project_points, res_files)
       THEN LET inc == split_increment(config_exec, project_points, res_files)
                i0 == last_site_ind
                i1 == i0 + inc.value
                r == ExecutionControlSplit(config_exec, res_files, i0, i1,
                                           project_points, config_pp, meta_len,
                                           split_levels[RootLevel])
            IN /\ iter_i' = iter_i + 1
               /\ last_site_ind' = i1
               /\ last_inc' = inc.value
               /\ config_pp' = r.cfg
               /\ oracle_calls' = oracle_calls + r.oracle
               /\ n_points' = n_points + 1
               /\ warnings' = warnings \cup r.warns
                                \cup (IF inc.warn THEN {"sites_per_core_default"} ELSE {})
               /\ IF r.sub.project_points.sites = <<>>
                  THEN /\ last_out' = "StopIteration"
                       /\ UNCHANGED yielded
                  ELSE /\ last_out' = "yield"
                       /\ yielded' = Append(yielded, r.sub)
       ELSE /\ last_out' = "StopIteration"
            /\ iter_i' = 0
            /\ last_site_ind' = 0
            /\ UNCHANGED <<last_inc, yielded, config_pp, oracle_calls, warnings,
                           n_points>>
    /\ UNCHANGED <<config_exec, res_files, meta_len, stage, project_points,
                   prev_yielded, n_iter, svars, jvars, qvars, wvars>>

\* ExecutionControl.__next__ on the root
NextStep ==
    /\ stage = "built"
    /\ iter_i >= 0
    /\ last_out \in {"iter", "yield", "StopIteration"}
    /\ IF iter_i < N(config_exec, project_points, res_files)
       THEN LET inc == split_increment(config_exec, project_points, res_files)
                i0 == last_site_ind
                i1 == i0 + inc.value
                r == ExecutionControlSplit(config_exec, res_files, i0, i1,
                                           project_points, config_pp, meta_len,
                                           split_levels[RootLevel])
            IN /\ iter_i' = iter_i + 1
               /\ last_site_ind' = i1
               /\ last_inc' = inc.value
               /\ config_pp' = r.cfg
               /\ oracle_calls' = oracle_calls + r.oracle
               /\ n_points' = n_points + 1
               /\ warnings' = warnings \cup r.warns
                                \cup (IF inc.warn THEN {"sites_per_core_default"} ELSE {})
               /\ IF r.sub.project_points.sites = <<>>
                  THEN /\ last_out' = "StopIteration"
                       /\ UNCHANGED yielded
                  ELSE /\ last_out' = "yield"
                       /\ yielded' = Append(yielded, r.sub)
       ELSE /\ last_out' = "StopIteration"
            /\ UNCHANGED <<iter_i, last_site_ind, last_inc, yielded, config_pp,
                           oracle_calls, warnings, n_points>>
    /\ UNCHANGED <<config_exec, res_files, meta_len, stage, project_points,
                   prev_yielded, n_iter, svars, jvars, qvars, wvars>>

DefaultExec == [keys |-> {}, nodes |-> 1, ppn |-> 1, sites_per_core |-> PyNone]

\* --------------------------------------------------------- SmartParallelJob
\* mem_util_lim and the sampled mem.used / mem.total, in percent
DefaultMemUtilLim == 70
\* the mem_util_lim argument: left out, or a value given by the caller
NotGiven == [t |-> "absent", v |-> 0]
MemLimits == {NotGiven, PyInt(DefaultMemUtilLim + 1)}
MemSamples == {DefaultMemUtilLim - 1, DefaultMemUtilLim, DefaultMemUtilLim + 1}

Units == 1..MaxUnits

\* the arguments of the constructor; the execution_iter is described by the
\* number of units it yields and by whether it supports len()
JobArgs ==
    [units : 0..MaxUnits, has_len : BOOLEAN,
     obj_has_run : BOOLEAN, obj_has_flush : BOOLEAN,
     n_workers : {PyNone} \cup {PyInt(n) : n \in 0..MaxWorkers},
     mem_util_lim : MemLimits]

IdleJob ==
    /\ job_args = [units |-> 0, has_len |-> TRUE, obj_has_run |-> TRUE,
                   obj_has_flush |-> TRUE, n_workers |-> PyNone,
                   mem_util_lim |-> NotGiven]
    /\ cpu_count = 1
    /\ pc = "idle"
    /\ exc = ""
    /\ n_workers = 0
    /\ i = 0
    /\ futures = <<>>
    /\ fstate = [u \in Units |-> "new"]
    /\ force_flush = FALSE
    /\ obj_out = <<>>
    /\ disk = <<>>
    /\ submitted = <<>>
    /\ rounds = <<>>
    /\ restarts = 0
    /\ completed = <<>>

InitJob ==
    /\ job_args \in JobArgs
    /\ cpu_count \in 1..MaxWorkers
    /\ pc = "args"
    /\ exc = ""
    /\ n_workers = 0
    /\ i = 0
    /\ futures = <<>>
    /\ fstate = [u \in Units |-> "new"]
    /\ force_flush = FALSE
    /\ obj_out = <<>>
    /\ disk = <<>>
    /\ submitted = <<>>
    /\ rounds = <<>>
    /\ restarts = 0
    /\ completed = <<>>

\* the mem_util_lim property: the argument, 0.7 when it was left out
mem_util_lim ==
    IF job_args.mem_util_lim = NotGiven THEN DefaultMemUtilLim
    ELSE job_args.mem_util_lim.v

\* an n_workers setter that ignores the argument
n_workers_setter_AllCores(arg, cpus) == cpus

\* the n_workers setter
n_workers_setter(arg, cpus) == IF Truthy(arg) THEN arg.v ELSE cpus

\* an obj setter that asks for run() only
obj_setter_RunOnly(args) == args.obj_has_run

\* the obj setter: does it accept the object
obj_setter(args) == args.obj_has_run /\ args.obj_has_flush

\* SmartParallelJob.__init__
NewJob ==
    /\ pc = "args"
    /\ IF obj_setter(job_args)
       THEN /\ n_workers' = n_workers_setter(job_args.n_workers, cpu_count)
            /\ pc' = "new"
            /\ exc' = exc
       ELSE /\ pc' = "raised"
            /\ exc' = "ExecutionError"
            /\ n_workers' = n_workers
    /\ UNCHANGED <<pvars, ivars, svars, qvars, wvars, job_args, cpu_count, i, futures, fstate,
                   force_flush, obj_out, disk, submitted, rounds, restarts, completed>>

\* run(), up to the first pass of the loop: the log line takes len() of the
\* execution_iter; then the client is opened and futures = []
RunStart ==
    /\ pc = "new"
    /\ IF job_args.has_len
       THEN pc' = "loop" /\ exc' = exc
       ELSE pc' = "raised" /\ exc' = "TypeError"
    /\ UNCHANGED <<pvars, ivars, svars, qvars, wvars, job_args, cpu_count, n_workers, i, futures,
                   fstate, force_flush, obj_out, disk, submitted, rounds, restarts, completed>>

\* a pause that comes one submission late
PauseAfter_OneLate(k, w) == k % w = 0 /\ k > 0

\* a pause after two complete sets of workers
PauseAfter_TwoSets(k, w) == (k + 1) % (2 * w) = 0

\* "Take a pause after one complete set of workers", k the enumerate index
PauseAfter(k, w) == (k + 1) % w = 0

\* a client.restart() that is not made
Restart_Skipped ==
    /\ pc = "restart"
    /\ pc' = "flush"
    /\ UNCHANGED <<pvars, ivars, svars, qvars, wvars, job_args, cpu_count, exc, n_workers, i,
                   futures, fstate, force_flush, obj_out, disk, submitted, rounds,
                   restarts, completed>>

\* a flush() that leaves obj.out as it is
ResetOut_Kept ==
    /\ pc = "reset"
    /\ pc' = IF force_flush THEN "done" ELSE "loop"
    /\ UNCHANGED <<pvars, ivars, svars, qvars, wvars, job_args, cpu_count, exc, n_workers, i,
                   futures, fstate, force_flush, obj_out, disk, submitted, rounds,
                   restarts, completed>>

\* one pass of the for loop: submit the next unit, and pause after one
\* complete set of workers
Submit ==
    /\ pc = "loop"
    /\ i < job_args.units
    /\ LET u == i + 1
       IN /\ futures' = Append(futures, u)
          /\ submitted' = Append(submitted, u)
          /\ fstate' = [fstate EXCEPT ![u] = "pending"]
    /\ i' = i + 1
    /\ IF PauseAfter(i, n_workers)
       THEN pc' = "gather" /\ force_flush' = FALSE
       ELSE pc' = "loop" /\ force_flush' = force_flush
    /\ UNCHANGED <<pvars, ivars, svars, qvars, wvars, job_args, cpu_count, exc, n_workers,
                   obj_out, disk, rounds, restarts, completed>>

\* the execution_iter is exhausted: gather_and_flush('END', ..., force_flush=True)
EndOfInput ==
    /\ pc = "loop"
    /\ i = job_args.units
    /\ pc' = "gather"
    /\ force_flush' = TRUE
    /\ UNCHANGED <<pvars, ivars, svars, qvars, wvars, job_args, cpu_count, exc, n_workers, i,
                   futures, fstate, obj_out, disk, submitted, rounds, restarts, completed>>

\* a worker returns from obj.run(unit)
WorkerFinish(u) ==
    /\ fstate[u] = "pending"
    /\ fstate' = [fstate EXCEPT ![u] = "finished"]
    /\ completed' = Append(completed, u)
    /\ UNCHANGED <<pvars, ivars, svars, qvars, wvars, job_args, cpu_count, pc, exc, n_workers, i,
                   futures, force_flush, obj_out, disk, submitted, rounds, restarts>>

\* obj.run(unit) raises in a worker
WorkerRaise(u) ==
    /\ fstate[u] = "pending"
    /\ fstate' = [fstate EXCEPT ![u] = "error"]
    /\ UNCHANGED <<pvars, ivars, svars, qvars, wvars, job_args, cpu_count, pc, exc, n_workers, i,
                   futures, force_flush, obj_out, disk, submitted, rounds, restarts, completed>>

InFutures(u) == \E k \in 1..Len(futures) : futures[k] = u

\* a mem check that ignores force_flush
MustFlush_NoForce(mem, lim, force) == mem >= lim

\* a mem check that flushes only above the limit
MustFlush_Above(mem, lim, force) == mem > lim \/ force

\* the mem check of gather_and_flush
MustFlush(mem, lim, force) == mem >= lim \/ force

\* a gather that skips the futures that raised instead of raising
GatherResults_SkipErrors(mem) ==
    /\ pc = "gather"
    /\ \A k \in 1..Len(futures) : fstate[futures[k]] \in {"finished", "error"}
    /\ obj_out' = obj_out \o SelectSeq(futures, LAMBDA u : fstate[u] = "finished")
    /\ futures' = <<>>
    /\ rounds' = Append(rounds, [forced |-> force_flush, mem |-> mem,
                                 results |-> SelectSeq(futures,
                                                LAMBDA u : fstate[u] = "finished"),
                                 flushes |-> 0, restarts |-> 0])
    /\ pc' = IF mem >= mem_util_lim \/ force_flush THEN "restart"
             ELSE IF force_flush THEN "done" ELSE "loop"
    /\ UNCHANGED <<pvars, ivars, svars, qvars, wvars, job_args, cpu_count, exc, n_workers, i,
                   fstate, force_flush, disk, submitted, restarts, completed>>

\* a gather that hands over the results in the order the workers returned
GatherResults_CompletionOrder(mem) ==
    /\ pc = "gather"
    /\ \A k \in 1..Len(futures) : fstate[futures[k]] = "finished"
    /\ obj_out' = obj_out \o SelectSeq(completed, InFutures)
    /\ futures' = <<>>
    /\ rounds' = Append(rounds, [forced |-> force_flush, mem |-> mem,
                                 results |-> SelectSeq(completed, InFutures),
                                 flushes |-> 0, restarts |-> 0])
    /\ pc' = IF MustFlush(mem, mem_util_lim, force_flush) THEN "restart"
             ELSE IF force_flush THEN "done" ELSE "loop"
    /\ UNCHANGED <<pvars, ivars, svars, qvars, wvars, job_args, cpu_count, exc, n_workers, i,
                   fstate, force_flush, disk, submitted, restarts, completed>>

\* a gather that does not wait for the units still running
GatherResults_NoWait(mem) ==
    /\ pc = "gather"
    /\ \A k \in 1..Len(futures) : fstate[futures[k]] # "error"
    /\ obj_out' = obj_out \o SelectSeq(futures, LAMBDA u : fstate[u] = "finished")
    /\ futures' = <<>>
    /\ rounds' = Append(rounds, [forced |-> force_flush, mem |-> mem,
                                 results |-> futures, flushes |-> 0, restarts |-> 0])
    /\ pc' = IF MustFlush(mem, mem_util_lim, force_flush) THEN "restart"
             ELSE IF force_flush THEN "done" ELSE "loop"
    /\ UNCHANGED <<pvars, ivars, svars, qvars, wvars, job_args, cpu_count, exc, n_workers, i,
                   fstate, force_flush, disk, submitted, restarts, completed>>

\* gather_and_flush, first part: client.gather returns, obj.out takes the
\* results (the sink appends them), futures.clear(), memory is sampled
GatherResults(mem) ==
    /\ pc = "gather"
    /\ \A k \in 1..Len(futures) : fstate[futures[k]] = "finished"
    /\ obj_out' = obj_out \o futures
    /\ futures' = <<>>
    /\ rounds' = Append(rounds, [forced |-> force_flush, mem |-> mem,
                                 results |-> futures, flushes |-> 0, restarts |-> 0])
    /\ pc' = IF MustFlush(mem, mem_util_lim, force_flush) THEN "restart"
             ELSE IF force_flush THEN "done" ELSE "loop"
    /\ UNCHANGED <<pvars, ivars, svars, qvars, wvars, job_args, cpu_count, exc, n_workers, i,
                   fstate, force_flush, disk, submitted, restarts, completed>>

\* client.gather raises the exception of a unit: it leaves gather_and_flush
\* and run()
GatherRaises ==
    /\ pc = "gather"
    /\ \E k \in 1..Len(futures) : fstate[futures[k]] = "error"
    /\ pc' = "raised"
    /\ exc' = "WorkerError"
    /\ UNCHANGED <<pvars, ivars, svars, qvars, wvars, job_args, cpu_count, n_workers, i, futures,
                   fstate, force_flush, obj_out, disk, submitted, rounds, restarts, completed>>

\* a client.restart() that is also made once before the gather has waited
Restart_BeforeGather ==
    /\ pc \in {"restart", "gather"}
    /\ pc = "gather" => restarts = 0
    /\ restarts' = restarts + 1
    /\ rounds' = IF pc = "restart"
                 THEN [rounds EXCEPT ![Len(rounds)].restarts = @ + 1]
                 ELSE rounds
    /\ pc' = IF pc = "restart" THEN "flush" ELSE "gather"
    /\ UNCHANGED <<pvars, ivars, svars, qvars, wvars, job_args, cpu_count, exc, n_workers, i,
                   futures, fstate, force_flush, obj_out, disk, submitted, completed>>

\* client.restart()
Restart ==
    /\ pc = "restart"
    /\ restarts' = restarts + 1
    /\ rounds' = [rounds EXCEPT ![Len(rounds)].restarts = @ + 1]
    /\ pc' = "flush"
    /\ UNCHANGED <<pvars, ivars, svars, qvars, wvars, job_args, cpu_count, exc, n_workers, i,
                   futures, fstate, force_flush, obj_out, disk, submitted, completed>>

\* flush(): obj.flush()
FlushObj ==
    /\ pc = "flush"
    /\ disk' = disk \o obj_out
    /\ rounds' = [rounds EXCEPT ![Len(rounds)].flushes = @ + 1]
    /\ pc' = "reset"
    /\ UNCHANGED <<pvars, ivars, svars, qvars, wvars, job_args, cpu_count, exc, n_workers, i,
                   futures, fstate, force_flush, obj_out, submitted, restarts, completed>>

\* flush(): obj.out = None, and the return to run()
ResetOut ==
    /\ pc = "reset"
    /\ obj_out' = <<>>
    /\ pc' = IF force_flush THEN "done" ELSE "loop"
    /\ UNCHANGED <<pvars, ivars, svars, qvars, wvars, job_args, cpu_count, exc, n_workers, i,
                   futures, fstate, force_flush, disk, submitted, rounds, restarts, completed>>

\* (out, err) and the object's attributes before anything is returned or set
NoReturn == [made |-> FALSE, out_none |-> TRUE, out |-> <<>>, err |-> ""]
NoAttrs == [set |-> FALSE, id_none |-> TRUE, id |-> <<>>, err |-> ""]

IdleCall ==
    /\ q_args = [sched |-> "PBS", name |-> <<"a">>, call |-> "init", keep_sh |-> FALSE]
    /\ q_pc = "idle"
    /\ q_path = FALSE
    /\ q_rows = <<>>
    /\ q_cmds = <<>>
    /\ q_sh = FALSE
    /\ q_writes = 0
    /\ q_warns = 0
    /\ q_ret = NoReturn
    /\ q_obj = NoAttrs
    /\ q_exc = ""

IdleWalltime == w_hours = 0 /\ w_out = <<>>
NoSlice == [made |-> FALSE, err |-> "", is_slice |-> FALSE,
            start |-> 0, stop |-> 0, step |-> 0, sites |-> <<>>]
IdleSlice == sas_sites = <<>> /\ sas_out = NoSlice
IdleChild == child_k = 0 /\ child_i = -1 /\ child_out = "none"
NoResults == [made |-> FALSE, results |-> <<>>, exc |-> 0]
IdleFutures ==
    /\ ef_iter = <<>> /\ ef_pc = "idle" /\ ef_futures = <<>> /\ ef_order = <<>>
    /\ ef_gathers = 0 /\ ef_ret = NoResults
IdleFunctions == IdleWalltime /\ IdleSlice /\ IdleChild /\ IdleFutures
IdleQueue == IdleCall /\ IdleFunctions

IdlePoints ==
    /\ config_pp = [keys |-> {}, file_none |-> FALSE, table |-> <<>>,
                    start |-> PyNone, stop |-> PyNone, step |-> PyNone]
    /\ config_exec = DefaultExec
    /\ res_files = 1
    /\ meta_len = 0
    /\ stage = "idle"
    /\ project_points = EmptyPoints
    /\ oracle_calls = 0
    /\ warnings = {}
    /\ n_points = 0

InitJobSpec == InitJob /\ IdlePoints /\ IdleIter /\ IdleSplit /\ IdleQueue
NextJob ==
    \/ NewJob
    \/ RunStart
    \/ Submit
    \/ EndOfInput
    \/ \E u \in Units : WorkerFinish(u)
    \/ \E u \in Units : WorkerRaise(u)
    \/ \E mem \in MemSamples : GatherResults(mem)
    \/ GatherRaises
    \/ Restart
    \/ FlushObj
    \/ ResetOut
SpecJob == InitJobSpec /\ [][NextJob]_vars

\* the steps of the thread that constructs the job and calls run()
ControlStep ==
    \/ NewJob
    \/ RunStart
    \/ Submit
    \/ EndOfInput
    \/ \E mem \in MemSamples : GatherResults(mem)
    \/ GatherRaises
    \/ Restart
    \/ FlushObj
    \/ ResetOut

\* the control thread keeps running, and a worker that does not raise returns
SpecJobLive ==
    /\ SpecJob
    /\ WF_vars(ControlStep)
    /\ \A u \in Units : WF_vars(WorkerFinish(u))

\* the bookkeeping of a split: dict, oracle reads, warnings, instances
SplitEffects(r) ==
    /\ config_pp' = r.cfg
    /\ oracle_calls' = oracle_calls + r.oracle
    /\ warnings' = warnings \cup r.warns
    /\ n_points' = n_points + 1

\* ExecutionControl.split(raw, res_files, i0, i1, root.project_points)
SplitRoot(i0, i1) ==
    /\ stage = "built"
    /\ ~sub1.made
    /\ part.c = 0
    /\ LET r == ExecutionControlSplit(config_exec, res_files, i0, i1, project_points,
                                      config_pp, meta_len, "core")
       IN /\ sub1' = [made |-> TRUE, err |-> r.err, i0 |-> i0, i1 |-> i1, sub |-> r.sub]
          /\ SplitEffects(r)
    /\ UNCHANGED <<config_exec, res_files, meta_len, stage, project_points, ivars,
                   sub2, part, jvars, qvars, wvars>>

\* ExecutionControl.split(raw, res_files, i0, i1, sub.project_points) on the
\* ExecutionControl an earlier split returned
SplitSub(i0, i1) ==
    /\ sub1.made
    /\ sub1.err = ""
    /\ ~sub2.made
    /\ LET r == ExecutionControlSplit(sub1.sub.raw, sub1.sub.res_files, i0, i1,
                                      sub1.sub.project_points, config_pp, meta_len, "core")
       IN /\ sub2' = [made |-> TRUE, err |-> r.err, i0 |-> i0, i1 |-> i1, sub |-> r.sub]
          /\ SplitEffects(r)
    /\ UNCHANGED <<config_exec, res_files, meta_len, stage, project_points, ivars,
                   sub1, part, jvars, qvars, wvars>>

\* begin a series of ProjectPoints.split calls with chunk size c
PartitionStart(c) ==
    /\ stage = "built"
    /\ project_points.defined
    /\ ~sub1.made
    /\ part.c = 0
    /\ part' = [c |-> c, pos |-> 0, parts |-> <<>>]
    /\ UNCHANGED <<pvars, ivars, sub1, sub2, jvars, qvars, wvars>>

\* ProjectPoints.split(pos, pos + c, ...) of the root, the next of the series
PartitionStep ==
    /\ part.c > 0
    /\ part.pos < Len(project_points.sites)
    /\ LET r == ProjectPointsSplit(part.pos, part.pos + part.c, config_pp,
                                   project_points.df, meta_len)
       IN /\ part' = [part EXCEPT !.pos = part.pos + part.c,
                                  !.parts = Append(part.parts, r.pp)]
          /\ SplitEffects(r)
    /\ UNCHANGED <<config_exec, res_files, meta_len, stage, project_points, ivars,
                   sub1, sub2, jvars, qvars, wvars>>

InitSplit ==
    InitPoints /\ config_exec = DefaultExec /\ IdleIter /\ IdleSplit /\ IdleJob /\ IdleQueue
NextSplit ==
    \/ Construct
    \/ \E i0, i1 \in 0..MaxIdx : SplitRoot(i0, i1)
    \/ \E i0, i1 \in 0..MaxIdx : SplitSub(i0, i1)
    \/ \E c \in 1..MaxChunk : PartitionStart(c)
    \/ PartitionStep
SpecSplit == InitSplit /\ [][NextSplit]_vars

InitIter ==
    InitPoints /\ config_exec \in ExecConfigs /\ IdleIter /\ IdleSplit /\ IdleJob /\ IdleQueue
NextIter == Construct \/ Iter \/ NextStep
SpecIter == InitIter /\ [][NextIter]_vars

\* ----------------------------------------------------------------- PBS, SLURM
\* text is a sequence of characters, a printout a sequence of rows
Blank == " "
RECURSIVE Rstrip(_)
Rstrip(t) ==
    IF t # <<>> /\ t[Len(t)] = Blank THEN Rstrip(SubSeq(t, 1, Len(t) - 1)) ELSE t

\* x in y, for two str
IsSubstr(x, y) ==
    \E k \in 0..(Len(y) - Len(x)) : SubSeq(y, k + 1, k + Len(x)) = x

\* a row of qstat is read if it has more than this many fields, its name is
\* field 3 and its status the last but one
PbsMinCols == 10
\* a row of squeue is read if it has more than this many fields, its name is
\* field 2 and its status field 4
SlurmMinCols == 7

JobNames == {<<"a">>, <<"a", "b">>}
PbsStatuses == {"Q", "R", "C"}
SlurmStatuses == {"PD", "R", "CG"}

\* the error streams a command can leave, before decoding
Streams == {<<>>, <<Blank>>, <<"E", Blank>>}
\* the output streams of qsub and sbatch, as words
SubmitOutputs == {<<>>, <<"7">>, <<"job", "7">>}

\* the rows qstat -u USER can print: any job of the user, and a shorter line
PbsRows ==
    [cols : {PbsMinCols + 1}, name : JobNames, status : PbsStatuses]
      \cup {[cols |-> PbsMinCols, name |-> <<"a">>, status |-> "Q"]}
\* the rows squeue -u USER -n name can print: the jobs of that name, the name
\* cut to the characters shown, and a shorter line
SlurmRows(name) ==
    {r \in [cols : {SlurmMinCols + 1}, name : JobNames, status : SlurmStatuses] :
        Len(r.name) <= Len(name) /\ r.name = SubSeq(name, 1, Len(r.name))}
      \cup {[cols |-> SlurmMinCols, name |-> <<"a">>, status |-> "PD"]}
SeqsUpTo(S, n) == UNION {[1..k -> S] : k \in 0..n}
Printouts(sched, name) ==
    SeqsUpTo(IF sched = "PBS" THEN PbsRows ELSE SlurmRows(name), MaxRows)

QueueArgs ==
    {a \in [sched : {"PBS", "SLURM"}, name : JobNames, call : {"init", "method"},
            keep_sh : BOOLEAN] : a.call = "init" => ~a.keep_sh}

\* a submit that raises on any byte of the error stream
SubmitRaises_Raw(stderr) == stderr # <<>>

\* SubprocessManager.submit: does it raise on this error stream
SubmitRaises(stderr) == Rstrip(stderr) # <<>>

\* does check_status(job, var='name') take the row for the job
RowMatches(sched, row, job) ==
    IF sched = "PBS"
    THEN row.cols > PbsMinCols /\ row.name = job
    ELSE row.cols > SlurmMinCols /\ IsSubstr(row.name, job)

\* check_status(job, var='name'): the rows are read in reverse, the first
\* matching row gives the status, None without one or with empty stdout
check_status(sched, rows, job) ==
    LET hits == {k \in 1..Len(rows) : RowMatches(sched, rows[k], job)}
    IN IF hits = {} THEN "None"
       ELSE rows[CHOOSE k \in hits : \A j \in hits : k >= j].status

\* status in ('Q', 'R') of qsub, status in ('PD', 'R') of sbatch
AlreadyRunning(sched, status) ==
    IF sched = "PBS" THEN status \in {"Q", "R"} ELSE status \in {"PD", "R"}

InitQueue ==
    /\ q_args \in QueueArgs
    /\ q_pc = "args"
    /\ q_path = FALSE
    /\ q_rows = <<>>
    /\ q_cmds = <<>>
    /\ q_sh = FALSE
    /\ q_writes = 0
    /\ q_warns = 0
    /\ q_ret = NoReturn
    /\ q_obj = NoAttrs
    /\ q_exc = ""
    /\ IdleFunctions

\* PBS.__init__ / SLURM.__init__ up to the call of qsub / sbatch
\* (make_path), or a call of qsub / sbatch on an object
QueueEnter ==
    /\ q_pc = "args"
    /\ q_path' = (q_args.call = "init")
    /\ q_pc' = "status"
    /\ UNCHANGED <<pvars, ivars, svars, jvars, wvars, q_args, q_rows, q_cmds, q_sh,
                   q_writes, q_warns, q_ret, q_obj, q_exc>>

\* qsub / sbatch, first part: check_status(name, var='name') runs qstat or
\* squeue through submit(), which raises on an error stream; a job found
\* queued or running gives a warning and (None, 'already_running')
QueueStatus(rows, stderr) ==
    /\ q_pc = "status"
    /\ q_cmds' = Append(q_cmds, [cmd |-> "status", stderr |-> stderr])
    /\ IF SubmitRaises(stderr)
       THEN /\ q_pc' = "raised"
            /\ q_exc' = "Exception"
            /\ UNCHANGED <<q_rows, q_warns, q_ret>>
       ELSE /\ q_rows' = rows
            /\ q_exc' = q_exc
            /\ IF AlreadyRunning(q_args.sched,
                                 check_status(q_args.sched, rows, q_args.name))
               THEN /\ q_warns' = q_warns + 1
                    /\ q_ret' = [made |-> TRUE, out_none |-> TRUE, out |-> <<>>,
                                 err |-> "already_running"]
                    /\ q_pc' = "return"
               ELSE /\ q_pc' = "script"
                    /\ UNCHANGED <<q_warns, q_ret>>
    /\ UNCHANGED <<pvars, ivars, svars, jvars, wvars, q_args, q_path, q_sh, q_writes, q_obj>>

\* qsub / sbatch: make_sh(fname, script)
WriteScript ==
    /\ q_pc = "script"
    /\ q_sh' = TRUE
    /\ q_writes' = q_writes + 1
    /\ q_pc' = "submit"
    /\ UNCHANGED <<pvars, ivars, svars, jvars, wvars, q_args, q_path, q_rows, q_cmds,
                   q_warns, q_ret, q_obj, q_exc>>

\* a submit step that leaves the script where make_sh wrote it
QueueSubmit_LeavesScript(stdout, stderr) ==
    /\ q_pc = "submit"
    /\ q_cmds' = Append(q_cmds, [cmd |-> "submit", stderr |-> stderr])
    /\ IF SubmitRaises(stderr)
       THEN /\ q_pc' = "raised"
            /\ q_exc' = "Exception"
            /\ UNCHANGED q_ret
       ELSE /\ q_ret' = [made |-> TRUE, out_none |-> FALSE, out |-> stdout, err |-> ""]
            /\ q_pc' = "return"
            /\ q_exc' = q_exc
    /\ UNCHANGED <<pvars, ivars, svars, jvars, wvars, q_args, q_path, q_rows, q_writes,
                   q_warns, q_obj, q_sh>>

\* qsub / sbatch: submit('qsub name.sh') or submit('sbatch name.sh'), then
\* the script is removed unless keep_sh, and (out, err) is returned
QueueSubmit(stdout, stderr) ==
    /\ q_pc = "submit"
    /\ q_cmds' = Append(q_cmds, [cmd |-> "submit", stderr |-> stderr])
    /\ IF SubmitRaises(stderr)
       THEN /\ q_pc' = "raised"
            /\ q_exc' = "Exception"
            /\ UNCHANGED <<q_sh, q_ret>>
       ELSE /\ q_ret' = [made |-> TRUE, out_none |-> FALSE, out |-> stdout, err |-> ""]
            /\ q_sh' = q_args.keep_sh
            /\ q_pc' = "return"
            /\ q_exc' = q_exc
    /\ UNCHANGED <<pvars, ivars, svars, jvars, wvars, q_args, q_path, q_rows, q_writes,
                   q_warns, q_obj>>

\* back in __init__: PBS sets id, err = (out, err); SLURM sets out, err and
\* id = the last word of out, or None without out
QueueReturn ==
    /\ q_pc = "return"
    /\ q_pc' = "done"
    /\ q_obj' =
          IF q_args.call # "init" THEN q_obj
          ELSE IF q_args.sched = "PBS"
          THEN [set |-> TRUE, id_none |-> q_ret.out_none, id |-> q_ret.out,
                err |-> q_ret.err]
          ELSE IF q_ret.out_none \/ q_ret.out = <<>>
          THEN [set |-> TRUE, id_none |-> TRUE, id |-> <<>>, err |-> q_ret.err]
          ELSE [set |-> TRUE, id_none |-> FALSE,
                id |-> <<q_ret.out[Len(q_ret.out)]>>, err |-> q_ret.err]
    /\ UNCHANGED <<pvars, ivars, svars, jvars, wvars, q_args, q_path, q_rows, q_cmds, q_sh,
                   q_writes, q_warns, q_ret, q_exc>>

InitQueueSpec == IdlePoints /\ IdleIter /\ IdleSplit /\ IdleJob /\ InitQueue
NextQueue ==
    \/ QueueEnter
    \/ \E rows \in Printouts(q_args.sched, q_args.name), stderr \in Streams :
          QueueStatus(rows, stderr)
    \/ WriteScript
    \/ \E stdout \in SubmitOutputs, stderr \in Streams : QueueSubmit(stdout, stderr)
    \/ QueueReturn
SpecQueue == InitQueueSpec /\ [][NextQueue]_vars

\* ------------------------------------------------------------------ walltime
\* hours is a multiple of 1 / HourParts. HourParts is odd, so that
\* 60 * (hours % 1) is never halfway between two integers and round() of the
\* float product is round() of the exact one.
MaxHalfParts == 60
HourParts == 2 * MaxHalfParts + 1
MaxWallHours == 2
LongHours == {99, 100}
\* the hours tried, as numerators over HourParts
WallHours ==
    0..(MaxWallHours * HourParts) \cup {h * HourParts : h \in LongHours}

Digit(d) == <<"0", "1", "2", "3", "4", "5", "6", "7", "8", "9">>[d + 1]
RECURSIVE Digits(_)
Digits(n) == IF n < 10 THEN <<Digit(n)>> ELSE Digits(n \div 10) \o <<Digit(n % 10)>>

\* '{0:02d}'.format(n) for n >= 0: at least two digits, padded with 0
Format02d(n) == IF n < 10 THEN <<"0">> \o Digits(n) ELSE Digits(n)

\* round(a / b) for a >= 0, b > 0: to the nearest integer, a half to the even
PyRound(a, b) ==
    LET q == a \div b
        r == a % b
    IN IF 2 * r > b THEN q + 1
       ELSE IF 2 * r < b THEN q
       ELSE IF q % 2 = 0 THEN q ELSE q + 1

\* SubprocessManager.walltime(n / HourParts)
walltime(n) ==
    LET m_str == Format02d(PyRound(60 * (n % HourParts), HourParts))
        h_str == Format02d(n \div HourParts)
    IN h_str \o <<":">> \o m_str \o <<":", "0", "0">>

InitWalltime ==
    /\ w_hours \in WallHours
    /\ w_out = <<>>

\* a call of walltime(hours)
Walltime ==
    /\ w_out = <<>>
    /\ w_out' = walltime(w_hours)
    /\ UNCHANGED <<pvars, ivars, svars, jvars, qvars, w_hours, sas_sites, sas_out,
                   child_k, child_i, child_out, evars>>

InitWalltimeSpec ==
    /\ IdlePoints /\ IdleIter /\ IdleSplit /\ IdleJob /\ IdleCall /\ IdleSlice
    /\ IdleChild /\ IdleFutures
    /\ InitWalltime
NextWalltime == Walltime
SpecWalltime == InitWalltimeSpec /\ [][NextWalltime]_vars

\* ------------------------------------------------------------ sites_as_slice
\* the site lists tried: one to MaxCsv different sites in any order
SliceSites ==
    {s \in UNION {[1..n -> 0..MaxStop] : n \in 1..MaxCsv} : IsInjective(s)}

\* list(range(*slice(a, b, d).indices(b))) for a >= 0, b >= 1: a start past
\* b is cut to b, and with a negative step start and stop are both cut to
\* b - 1, which leaves nothing
TryList(a, b, d) == IF d > 0 THEN Range(Min(a, b), b, d) ELSE <<>>

\* ProjectPoints.sites_as_slice of a site list
sites_as_slice(sites) ==
    IF Len(sites) < 2
    THEN [NoSlice EXCEPT !.made = TRUE, !.err = "IndexError"]
    ELSE LET try_step == sites[2] - sites[1]
             start == sites[1]
             stop == sites[Len(sites)] + 1
         IN IF try_step = 0
            THEN [NoSlice EXCEPT !.made = TRUE, !.err = "ValueError"]
            ELSE IF sites = TryList(start, stop, try_step)
                 THEN [made |-> TRUE, err |-> "", is_slice |-> TRUE, start |-> start,
                       stop |-> stop, step |-> try_step, sites |-> <<>>]
                 ELSE [made |-> TRUE, err |-> "", is_slice |-> FALSE, start |-> 0,
                       stop |-> 0, step |-> 0, sites |-> sites]

InitSlice ==
    /\ sas_sites \in SliceSites
    /\ sas_out = NoSlice

\* the first read of sites_as_slice on a ProjectPoints holding sas_sites
SitesAsSlice ==
    /\ ~sas_out.made
    /\ sas_sites # <<>>
    /\ sas_out' = sites_as_slice(sas_sites)
    /\ UNCHANGED <<pvars, ivars, svars, jvars, qvars, w_hours, w_out, sas_sites,
                   child_k, child_i, child_out, evars>>

InitSliceSpec ==
    /\ IdlePoints /\ IdleIter /\ IdleSplit /\ IdleJob /\ IdleCall /\ IdleWalltime
    /\ IdleChild /\ IdleFutures
    /\ InitSlice
NextSlice == SitesAsSlice
SpecSlice == InitSliceSpec /\ [][NextSlice]_vars

\* ------------------------------------------- iteration of a yielded control
\* a split_level under which every level splits into 'core'
split_level_AlwaysCore(level) == [err |-> "", v |-> "core"]

\* the split_level property: the level one below, or KeyError
split_level(level) ==
    IF level \in DOMAIN split_levels
    THEN [err |-> "", v |-> split_levels[level]]
    ELSE [err |-> "KeyError", v |-> ""]

\* the configurations of the iterations whose children are iterated: a csv
\* file and no slice
ChildConfigs == {c \in FileConfigs : "stop" \notin c.keys}

\* iter(child) on the k-th ExecutionControl the root has yielded: the
\* counters are set, then the log line reads split_level
IterChild(k) ==
    /\ child_k = 0
    /\ k \in 1..Len(yielded)
    /\ child_k' = k
    /\ child_i' = 0
    /\ child_out' = IF split_level(yielded[k].level).err # ""
                    THEN split_level(yielded[k].level).err ELSE "iter"
    /\ UNCHANGED <<pvars, ivars, svars, jvars, qvars, w_hours, w_out, sas_sites,
                   sas_out, evars>>

\* next(child) after that iter(child): with _i < N the counter is advanced
\* before split reads split_level
NextChild ==
    /\ child_k \in 1..Len(yielded)
    /\ LET ch == yielded[child_k]
       IN IF child_i < N(ch.raw, ch.project_points, ch.res_files)
          THEN /\ child_i' = child_i + 1
               /\ child_out' = IF split_level(ch.level).err # ""
                               THEN split_level(ch.level).err ELSE "yield"
          ELSE /\ child_i' = child_i
               /\ child_out' = "StopIteration"
    /\ UNCHANGED <<pvars, ivars, svars, jvars, qvars, w_hours, w_out, sas_sites,
                   sas_out, child_k, evars>>

\* the root is iterated, then one of the controls it has yielded is
InitChildSpec ==
    /\ InitPoints /\ config_pp \in ChildConfigs /\ config_exec \in ExecConfigs
    /\ IdleIter /\ IdleSplit /\ IdleJob /\ IdleQueue
NextChildSpec ==
    \/ Construct
    \/ (child_k = 0 /\ Iter)
    \/ (child_k = 0 /\ NextStep)
    \/ \E k \in 1..MaxIdx : IterChild(k)
    \/ NextChild
SpecChild == InitChildSpec /\ [][NextChildSpec]_vars

\* ------------------------------------------------------------ execute_futures
\* the most items execution_iter yields
MaxSlices == 3
\* the items of execution_iter: fun returns for "x" and "y" and raises for
\* "bad"
Items == {"x", "y", "bad"}
fun == [x |-> "fx", y |-> "fy"]
Raises(item) == item \notin DOMAIN fun
ExecutionIters == UNION {[1..n -> Items] : n \in 0..MaxSlices}

\* a gather that hands the results back as the workers completed them
client_gather_AsCompleted(items, order) ==
    [k \in 1..Len(order) |-> fun[items[order[k]]]]

\* client.gather(futures) of finished futures: the result of each future, in
\* the order of the list
client_gather(items, order) == [k \in 1..Len(items) |-> fun[items[k]]]

InitFutures ==
    /\ ef_iter \in ExecutionIters
    /\ ef_pc = "submit"
    /\ ef_futures = <<>>
    /\ ef_order = <<>>
    /\ ef_gathers = 0
    /\ ef_ret = NoResults

\* one pass of the for loop: the next item is submitted and its future
\* appended
SubmitFuture ==
    /\ ef_pc = "submit"
    /\ Len(ef_futures) < Len(ef_iter)
    /\ ef_futures' = Append(ef_futures, "pending")
    /\ UNCHANGED <<pvars, ivars, svars, jvars, qvars, w_hours, w_out, sas_sites,
                   sas_out, child_k, child_i, child_out, ef_iter, ef_pc, ef_order,
                   ef_gathers, ef_ret>>

\* a worker runs execute_single for a submitted item, while the loop or the
\* gather goes on
RunFuture(k) ==
    /\ ef_pc \in {"submit", "gather"}
    /\ k \in 1..Len(ef_futures)
    /\ ef_futures[k] = "pending"
    /\ ef_futures' = [ef_futures EXCEPT ![k] =
                         IF Raises(ef_iter[k]) THEN "error" ELSE "finished"]
    /\ ef_order' = Append(ef_order, k)
    /\ UNCHANGED <<pvars, ivars, svars, jvars, qvars, w_hours, w_out, sas_sites,
                   sas_out, child_k, child_i, child_out, ef_iter, ef_pc, ef_gathers,
                   ef_ret>>

\* the iterator is exhausted: client.gather(futures) is called
CallGather ==
    /\ ef_pc = "submit"
    /\ Len(ef_futures) = Len(ef_iter)
    /\ ef_pc' = "gather"
    /\ ef_gathers' = ef_gathers + 1
    /\ UNCHANGED <<pvars, ivars, svars, jvars, qvars, w_hours, w_out, sas_sites,
                   sas_out, child_k, child_i, child_out, ef_iter, ef_futures, ef_order,
                   ef_ret>>

\* client.gather returns when every future has finished, and results is
\* returned
ReturnResults ==
    /\ ef_pc = "gather"
    /\ \A k \in 1..Len(ef_futures) : ef_futures[k] = "finished"
    /\ ef_pc' = "returned"
    /\ ef_ret' = [made |-> TRUE, results |-> client_gather(ef_iter, ef_order),
                  exc |-> 0]
    /\ UNCHANGED <<pvars, ivars, svars, jvars, qvars, w_hours, w_out, sas_sites,
                   sas_out, child_k, child_i, child_out, ef_iter, ef_futures, ef_order,
                   ef_gathers>>

\* client.gather raises the exception of a future that has failed, which
\* leaves the with block and execute_futures
RaiseFromGather(k) ==
    /\ ef_pc = "gather"
    /\ k \in 1..Len(ef_futures)
    /\ ef_futures[k] = "error"
    /\ ef_pc' = "raised"
    /\ ef_ret' = [made |-> FALSE, results |-> <<>>, exc |-> k]
    /\ UNCHANGED <<pvars, ivars, svars, jvars, qvars, w_hours, w_out, sas_sites,
                   sas_out, child_k, child_i, child_out, ef_iter, ef_futures, ef_order,
                   ef_gathers>>

InitFuturesSpec ==
    /\ IdlePoints /\ IdleIter /\ IdleSplit /\ IdleJob /\ IdleCall /\ IdleWalltime
    /\ IdleSlice /\ IdleChild
    /\ InitFutures
NextFutures ==
    \/ SubmitFuture
    \/ \E k \in 1..MaxSlices : RunFuture(k)
    \/ CallGather
    \/ ReturnResults
    \/ \E k \in 1..MaxSlices : RaiseFromGather(k)
SpecFutures == InitFuturesSpec /\ [][NextFutures]_vars

\* ------------------------------------------------------------------ helpers
Count(seq, x) == Cardinality({k \in 1..Len(seq) : seq[k] = x})

RECURSIVE Flatten(_)
Flatten(ss) == IF ss = <<>> THEN <<>> ELSE Head(ss) \o Flatten(Tail(ss))

RECURSIVE SumLen(_)
SumLen(ss) == IF ss = <<>> THEN 0 ELSE Len(Head(ss)) + SumLen(Tail(ss))

\* the least k with k * b >= a
LeastMultiple(a, b) == CHOOSE k \in 0..a : k * b >= a /\ \A j \in 0..(k - 1) : j * b < a

\* the elements of seq at the (0-based) positions i0 <= k < i1
SitesAt(seq, i0, i1) ==
    LET hi == IF i1 <= Len(seq) THEN i1 ELSE Len(seq)
    IN IF hi <= i0 THEN <<>> ELSE [k \in 1..(hi - i0) |-> seq[i0 + k]]

SiteSet(pp) == {pp.sites[k] : k \in 1..Len(pp.sites)}

\* the results handed to obj.out so far, gather by gather
Handed == Flatten([k \in 1..Len(rounds) |-> rounds[k].results])

\* the site sequences of the ExecutionControls yielded so far
YieldedSites == [k \in 1..Len(yielded) |-> yielded[k].project_points.sites]
PartSites == [k \in 1..Len(part.parts) |-> part.parts[k].sites]

\* ------------------------------------------------------------------- claims

\* C1: in a run in which no unit raises, no unit is submitted, handed to the
\* sink or written by a flush more than once (a result is on disk and in
\* obj.out together only between obj.flush() and obj.out = None), and when
\* run() has returned every unit of the plan was submitted once, handed to
\* obj.out once and written by a flush once, with nothing left in obj.out.
C1_NoResultLostOrDuplicated ==
    /\ \A u \in Units :
          /\ Count(submitted, u) <= 1
          /\ Count(Handed, u) <= 1
          /\ Count(disk, u) <= 1 /\ Count(obj_out, u) <= 1
          /\ pc # "reset" => Count(disk \o obj_out, u) <= 1
    /\ pc = "done" =>
          /\ \A u \in 1..job_args.units :
                Count(submitted, u) = 1 /\ Count(Handed, u) = 1 /\ Count(disk, u) = 1
          /\ Len(disk) = job_args.units
          /\ obj_out = <<>>

\* a finished run of several rounds in which the limit was never reached
C1_Witness ==
    /\ pc = "done"
    /\ job_args.units >= 3
    /\ Len(rounds) >= 2
    /\ \A k \in 1..Len(rounds) : rounds[k].mem < mem_util_lim
    /\ disk = <<1, 2, 3>>

\* a gather whose flush decision has been carried out
RoundClosed(k) == k < Len(rounds) \/ pc \in {"loop", "done"}

C8_FailedUnitNotGathered ==
    \A u \in Units : fstate[u] = "error" =>
        /\ Count(submitted, u) = 1
        /\ \A v \in u..MaxUnits : fstate[v] # "new" => InFutures(v)
        /\ Count(Handed, u) = 0 /\ Count(disk \o obj_out, u) = 0
        /\ pc \notin {"done", "restart", "flush", "reset"}

\* C8 (step part): once the gather has raised, nothing is submitted,
\* accumulated, flushed or restarted any more.
C8_NothingAfterFailure ==
    exc = "WorkerError" =>
        UNCHANGED <<pc, exc, i, futures, submitted, obj_out, disk, rounds, restarts>>

\* C8: a raising unit aborts run() at the gather of its round: no later
\* submit, accumulate or flush, and no retry.
C8_AbortOnWorkerFailure ==
    /\ []C8_FailedUnitNotGathered
    /\ [][C8_NothingAfterFailure]_vars
    /\ [](exc = "WorkerError" => pc = "raised" /\ \E u \in Units : fstate[u] = "error")

\* run() aborted in its second round, with the first round accumulated
C8_Witness ==
    /\ exc = "WorkerError"
    /\ pc = "raised"
    /\ Len(rounds) = 1
    /\ i < job_args.units
    /\ \E u \in Units : fstate[u] = "error" /\ InFutures(u)

\* C3: a series of ProjectPoints.split calls at [0,c), [c,2c), ... on a
\* ProjectPoints built from the configuration gives, concatenated, the sites
\* before the position reached, in order; every part but the last has c
\* sites, none is empty, and once the position passes n the concatenation is
\* the whole site sequence.
C3_PartitionCoverage ==
    part.c > 0 =>
        /\ Flatten(PartSites) = SitesAt(project_points.sites, 0, part.pos)
        /\ part.pos = part.c * Len(part.parts)
        /\ \A k \in 1..Len(part.parts) :
              /\ part.parts[k].sites # <<>>
              /\ k < Len(part.parts) => Len(part.parts[k].sites) = part.c
        /\ part.pos >= Len(project_points.sites) =>
              Flatten(PartSites) = project_points.sites

\* a csv table of three sites cut into chunks of two: a full and a short part
C3_Witness ==
    /\ "file" \in config_pp.keys
    /\ Len(project_points.sites) = 3
    /\ part.c = 2
    /\ part.pos >= 3
    /\ Len(part.parts) = 2
    /\ Len(part.parts[2].sites) = 1

\* C4: no site is in two of the sub-ProjectPoints one iteration yields.
C4_PartitionsDisjoint ==
    \A a, b \in 1..Len(yielded) :
        a # b => SiteSet(yielded[a].project_points)
                   \cap SiteSet(yielded[b].project_points) = {}

\* an iteration over a csv table that has yielded two sub-plans
C4_Witness ==
    /\ "file" \in config_pp.keys
    /\ Len(yielded) >= 2
    /\ last_out = "StopIteration"

\* the chunk size and the number of sites of the plan under iteration
IterSites == Len(project_points.sites)

\* C5: when the iteration stops it has yielded ceil(n / c) non-empty
\* sub-plans that cover the n sites.
C5_YieldsCeilSteps ==
    (last_out = "StopIteration" /\ IterSites >= 1 /\ last_inc >= 1) =>
        /\ Len(yielded) = LeastMultiple(IterSites, last_inc)
        /\ Flatten(YieldedSites) = project_points.sites
        /\ \A k \in 1..Len(yielded) : YieldedSites[k] # <<>>

\* C6: a split at (i0, i1) returns the parent's sites at positions [i0, i1)
\* with the parent's mapping restricted to them, for a parent built from the
\* configuration (sub1) and for a parent that is itself a split (sub2).
IsSplitOf(s, parent) ==
    (s.made /\ s.err = "") =>
        /\ s.sub.project_points.sites = SitesAt(parent.sites, s.i0, s.i1)
        /\ s.sub.project_points.df =
              SelectSeq(parent.df,
                        LAMBDA r : r.sites \in SiteSet(s.sub.project_points))
        /\ {s.sub.project_points.df[k].sites : k \in 1..Len(s.sub.project_points.df)}
              = SiteSet(s.sub.project_points)
C6_SplitIsPositional ==
    /\ IsSplitOf(sub1, project_points)
    /\ IsSplitOf(sub2, sub1.sub.project_points)

\* a range whose stop is not given ('inf' or None)
OpenEndedRange(cfg) ==
    /\ "stop" \in cfg.keys /\ "file" \notin cfg.keys
    /\ cfg.stop \in {PyNone, PyInf}

\* C7 as stated: for an open-ended range the meta length is read once, however
\* many splits follow the construction.
C7_OracleOnce ==
    (OpenEndedRange(config_pp) /\ stage = "built") => oracle_calls = 1

\* C7 amended: for an open-ended range the meta length is read once by each
\* ProjectPoints instance, at its construction: once for the root and once
\* more for every split; each read resolves the same site sequence, so a
\* split of the root is the slice of the root's sites.
C7_OraclePerInstance ==
    OpenEndedRange(config_pp) =>
        /\ oracle_calls = n_points
        /\ (sub1.made /\ sub1.err = "") =>
              sub1.sub.project_points.sites
                 = SitesAt(project_points.sites, sub1.i0, sub1.i1)
        /\ part.c > 0 =>
              Flatten(PartSites) = SitesAt(project_points.sites, 0, part.pos)

\* an open-ended range, constructed and then split twice
C7_Witness ==
    /\ OpenEndedRange(config_pp)
    /\ meta_len >= 2
    /\ sub1.made /\ sub2.made
    /\ sub1.sub.project_points.sites # <<>>
    /\ oracle_calls = 3

\* a __next__ that computed a split increment has been made
Stepped == iter_i >= 1 /\ last_out \in {"yield", "StopIteration"}

ExplicitSpc ==
    /\ "sites_per_core" \in config_exec.keys
    /\ config_exec.sites_per_core.t = "int"
    /\ config_exec.sites_per_core.v # 0

Workers ==
    (IF "nodes" \in config_exec.keys THEN config_exec.nodes ELSE 1)
      * (IF "ppn" \in config_exec.keys THEN config_exec.ppn ELSE 1)

\* C9 as stated: without an explicit value the chunk size is
\* ceil(sites / (nodes * ppn)), sites being the number of sites of the
\* ProjectPoints.
C9_ChunkFromSiteCount ==
    Stepped =>
        last_inc = IF ExplicitSpc THEN config_exec.sites_per_core.v
                   ELSE LeastMultiple(IterSites, Workers)

\* C9 amended: the chunk size is the explicit sites_per_core when one is given
\* (and is not 0), otherwise ceil(total / (nodes * ppn)) with total = number
\* of sites * number of resource files; the fallback of 100 and its warning
\* are never used, as a ProjectPoints always holds a resolved site list.
C9_ChunkSizeResolution ==
    /\ Stepped =>
          last_inc = IF ExplicitSpc THEN config_exec.sites_per_core.v
                     ELSE LeastMultiple(IterSites * res_files, Workers)
    /\ "sites_per_core_default" \notin warnings

\* a derived chunk size over two resource files, and one over an open range
C9_Witness ==
    /\ Stepped
    /\ ~ExplicitSpc
    /\ res_files = 2
    /\ Workers = 4
    /\ OpenEndedRange(config_pp)
    /\ IterSites = 3
    /\ last_inc = 2

\* C10: without a sites_per_core override (one resource file), the iteration
\* yields at most p_tot partitions, all but the last of ceil(n / p_tot) sites,
\* and their sizes sum to n.
C10_PartitionSizes ==
    (last_out = "StopIteration" /\ ~ExplicitSpc /\ res_files = 1 /\ IterSites >= 1) =>
        /\ Len(yielded) <= Workers
        /\ \A k \in 1..(Len(yielded) - 1) :
              Len(YieldedSites[k]) = LeastMultiple(IterSites, Workers)
        /\ SumLen(YieldedSites) = IterSites

\* the units k * w + 1 .. k * w + n, in order
UnitsFrom(k, w, n) == [j \in 1..n |-> k * w + j]

\* C11: with n_workers = w, obj.out receives the gathered results after each
\* w-th submission (the w units of that round, in order) and once more at the
\* end of the input (the U mod w units left, possibly none), so floor(U / w)
\* + 1 times in a run that returns; the futures list is empty after every
\* gather and holds i mod w futures while the loop runs.
C11_GatherEveryRound ==
    pc \in {"loop", "gather", "restart", "flush", "reset", "done"} =>
        /\ \A k \in 1..Len(rounds) :
              rounds[k].results =
                 IF rounds[k].forced
                 THEN UnitsFrom(k - 1, n_workers, job_args.units % n_workers)
                 ELSE UnitsFrom(k - 1, n_workers, n_workers)
        /\ pc = "loop" => Len(rounds) = i \div n_workers /\ Len(futures) = i % n_workers
        /\ pc \in {"restart", "flush", "reset", "done"} => futures = <<>>
        /\ pc = "done" => Len(rounds) = (job_args.units \div n_workers) + 1

\* a run of four units on two workers that returned: two full rounds and an
\* empty final gather
C11_Witness ==
    /\ pc = "done"
    /\ job_args.units = 4
    /\ n_workers = 2
    /\ Len(rounds) = 3
    /\ rounds[3].results = <<>>

\* the gathers of the loop (not the final one) whose ratio reached the limit
MidRunOverLimit ==
    {k \in 1..Len(rounds) :
        ~rounds[k].forced /\ rounds[k].mem >= mem_util_lim}

\* C12 as stated: client.restart() is called once in each gather of the loop
\* whose ratio is >= the limit and at no other time: not in the final forced
\* gather.
C12_RecycleOnlyMidRun ==
    /\ \A k \in 1..Len(rounds) :
          RoundClosed(k) =>
              rounds[k].restarts = IF k \in MidRunOverLimit THEN 1 ELSE 0
    /\ pc = "done" => restarts = Cardinality(MidRunOverLimit)

\* C12 amended: client.restart() is called once in every gather that flushes:
\* each gather of the loop whose ratio is >= the limit, and the final forced
\* gather whatever its ratio; a run that returns has restarted the client
\* once more than the number of mid-run gathers at or over the limit.
C12_RecyclePerFlush ==
    /\ \A k \in 1..Len(rounds) :
          /\ rounds[k].restarts <= 1
          /\ RoundClosed(k) =>
                rounds[k].restarts =
                   IF k \in MidRunOverLimit \/ rounds[k].forced THEN 1 ELSE 0
    /\ pc = "done" => restarts = Cardinality(MidRunOverLimit) + 1

\* a run of three gathers that returned, the ratio at the limit in the second
\* only: the client was restarted twice
C12_Witness ==
    /\ pc = "done"
    /\ Len(rounds) = 3
    /\ rounds[1].mem < mem_util_lim
    /\ rounds[2].mem >= mem_util_lim
    /\ rounds[3].mem < mem_util_lim
    /\ rounds[3].restarts = 1
    /\ restarts = 2

\* C13 as stated: in a gather that flushes, the client is restarted only
\* after obj.flush() and obj.out = None of that gather.
C13_FlushResetRecycle ==
    \A k \in 1..Len(rounds) :
        rounds[k].restarts >= 1 =>
            /\ rounds[k].flushes >= 1
            /\ k = Len(rounds) => pc \notin {"flush", "reset"}

\* C13 amended (state part): obj.flush() of a gather is called only after
\* the client.restart() of that gather has returned.
C13_RestartBeforeFlush ==
    /\ \A k \in 1..Len(rounds) : rounds[k].flushes >= 1 => rounds[k].restarts = 1
    /\ pc = "restart" => rounds[Len(rounds)].restarts = 0 /\ rounds[Len(rounds)].flushes = 0
    /\ pc = "flush" => rounds[Len(rounds)].restarts = 1 /\ rounds[Len(rounds)].flushes = 0
    /\ pc = "reset" => rounds[Len(rounds)].restarts = 1 /\ rounds[Len(rounds)].flushes = 1

\* C13 amended (step part): the step after obj.flush() is obj.out = None,
\* with no submit, gather or restart in between.
C13_ResetFollowsFlush ==
    /\ disk' # disk => pc' = "reset"
    /\ pc = "reset" =>
          /\ obj_out' = <<>>
          /\ UNCHANGED <<submitted, futures, rounds, disk, restarts>>

\* C13 amended: a gather that flushes calls client.restart(), then
\* obj.flush(), then sets obj.out = None, in that order.
C13_RecycleFlushReset ==
    /\ []C13_RestartBeforeFlush
    /\ [][C13_ResetFollowsFlush]_vars

\* a mid-run gather at the limit, restarted and about to flush two results
C13_Witness ==
    /\ pc = "flush"
    /\ ~force_flush
    /\ rounds[Len(rounds)].restarts = 1
    /\ Len(obj_out) = 2
    /\ disk = <<>>

\* C16: a run() over a finite execution_iter in which no unit raises
\* returns: from the constructed job, run() reaches its end unless a unit
\* raised.
C16_RunReachesDone ==
    (pc = "new") ~> (pc = "done" \/ \E u \in Units : fstate[u] = "error")

\* the printout lists a job of the requested name as queued or running
ListedRunning ==
    \E k \in 1..Len(q_rows) :
        /\ q_rows[k].cols > (IF q_args.sched = "PBS" THEN PbsMinCols ELSE SlurmMinCols)
        /\ q_args.sched = "PBS" => q_rows[k].name = q_args.name
        /\ q_rows[k].status \in (IF q_args.sched = "PBS" THEN {"Q", "R"} ELSE {"PD", "R"})

\* the submit commands (qsub, sbatch) given so far
Submits == Cardinality({k \in 1..Len(q_cmds) : q_cmds[k].cmd = "submit"})

\* the status query has returned a printout
StatusRead == Len(q_cmds) >= 1 /\ ~(q_pc = "raised" /\ Len(q_cmds) = 1)

\* C14: qsub / sbatch first query the queue by job name; when the printout
\* lists a job of that name as queued or running, no script is written, no
\* submit command is given, a warning is raised (no exception) and
\* (None, 'already_running') is returned; otherwise exactly one submit
\* command is given.
C14_DuplicateGuard ==
    /\ q_cmds # <<>> => q_cmds[1].cmd = "status"
    /\ Submits <= 1
    /\ StatusRead =>
          IF ListedRunning
          THEN /\ q_writes = 0 /\ ~q_sh
               /\ Submits = 0
               /\ q_exc = ""
               /\ q_pc \in {"return", "done"}
               /\ q_warns = 1
               /\ q_ret.made /\ q_ret.out_none /\ q_ret.err = "already_running"
          ELSE /\ q_warns = 0
               /\ q_pc \in {"return", "done", "raised"} => Submits = 1

\* the stream holds something other than blanks
HasText(t) == \E k \in 1..Len(t) : t[k] # Blank

\* the call ended in the exception of SubprocessManager.submit: nothing was
\* returned, no attribute was set, and the failed command is the last one
QueueCallFailed ==
    /\ q_pc = "raised" /\ q_exc = "Exception"
    /\ ~q_ret.made
    /\ ~q_obj.set

\* C15 as stated: a status or submit command that leaves a non-empty error
\* stream makes submit() raise: the call ends there, the object gets no id
\* or err, and no command follows.
C15_RaisesOnErrorStream ==
    \A k \in 1..Len(q_cmds) :
        q_cmds[k].stderr # <<>> => k = Len(q_cmds) /\ QueueCallFailed

\* C15 amended: submit() raises exactly when the error stream is not empty
\* after its trailing blanks are stripped; then the call ends there, nothing
\* is returned, the object gets no id or err and no command follows (no
\* submit after a failed status query); a stream of blanks only does not
\* raise.
C15_RaisesOnErrorText ==
    /\ \A k \in 1..Len(q_cmds) :
          HasText(q_cmds[k].stderr) => k = Len(q_cmds) /\ QueueCallFailed
    /\ q_pc = "raised" =>
          /\ q_cmds # <<>> /\ HasText(q_cmds[Len(q_cmds)].stderr)
          /\ QueueCallFailed
    /\ q_obj.set => q_pc = "done" /\ q_args.call = "init"

\* a construction whose status query left an error text
C15_Witness ==
    /\ q_args.call = "init"
    /\ q_path
    /\ q_pc = "raised"
    /\ Len(q_cmds) = 1
    /\ q_cmds[1].cmd = "status"
    /\ HasText(q_cmds[1].stderr)

\* the sites of the site-to-config table of a ProjectPoints
DfSites(pp) == {pp.df[k].sites : k \in 1..Len(pp.df)}

\* C17: every ProjectPoints built from the configuration or returned by a
\* split (of the root, or of a split) maps exactly its own sites: the sites
\* column of its df and its site list hold the same sites.
C17_DfMatchesSites ==
    /\ project_points.defined => DfSites(project_points) = SiteSet(project_points)
    /\ (sub1.made /\ sub1.err = "") =>
          DfSites(sub1.sub.project_points) = SiteSet(sub1.sub.project_points)
    /\ (sub2.made /\ sub2.err = "") =>
          DfSites(sub2.sub.project_points) = SiteSet(sub2.sub.project_points)
    /\ \A k \in 1..Len(part.parts) : DfSites(part.parts[k]) = SiteSet(part.parts[k])

\* C18 (step): once the root is built, no step changes its sites, its df or
\* the configuration dict, and a split of a split leaves the first split as
\* it was; the parts already returned stay as they are.
C18_ParentUnchanged ==
    stage = "built" =>
        /\ project_points' = project_points
        /\ config_pp' = config_pp
        /\ sub1.made => sub1' = sub1
        /\ SubSeq(part'.parts, 1, Len(part.parts)) = part.parts

\* C18: ProjectPoints.split and ExecutionControl.split leave the parent's
\* sites, df and raw configuration unchanged.
C18_SplitLeavesParent == [][C18_ParentUnchanged]_vars

\* a range given with stop 'inf' or None, split and split again
C18_Witness ==
    /\ OpenEndedRange(config_pp)
    /\ Len(project_points.sites) >= 2
    /\ sub1.made /\ sub1.sub.project_points.sites # <<>>
    /\ sub2.made /\ sub2.sub.project_points.sites # <<>>

\* an open-ended range with a step other than 1 and None
OpenEndedStepped ==
    /\ OpenEndedRange(config_pp)
    /\ config_pp.step \notin {PyNone, PyInt(1)}

UnitStepRange ==
    /\ "stop" \in config_pp.keys /\ "file" \notin config_pp.keys
    /\ config_pp.step \in {PyNone, PyInt(1)}
RangeStart == IF config_pp.start = PyNone THEN 0 ELSE config_pp.start.v
RangeStop == IF config_pp.stop.t = "int" THEN config_pp.stop.v ELSE meta_len

\* the sites a, a + 1, ..., b - 1
UnitRange(a, b) == IF b <= a THEN <<>> ELSE [k \in 1..(b - a) |-> a + k - 1]

\* C20 as stated: a split at (i0, i1), 0 <= i0 <= i1, of a unit-step range
\* with start s gives the sites s + i0, ..., s + i1 - 1.
C20_UnitStepSplit ==
    (UnitStepRange /\ sub1.made /\ sub1.i0 <= sub1.i1) =>
        /\ sub1.err = ""
        /\ sub1.sub.project_points.sites
              = UnitRange(RangeStart + sub1.i0, RangeStart + sub1.i1)

\* C20 amended: the split gives the sites s + i0, ..., min(s + i1, stop) - 1,
\* stop being the stop of the range (the meta length for a range without
\* stop): the range from s + i0 to s + i1 cut at the end of the parent.
C20_UnitStepSplitClipped ==
    (UnitStepRange /\ sub1.made /\ sub1.i0 <= sub1.i1) =>
        /\ sub1.err = ""
        /\ sub1.sub.project_points.sites
              = UnitRange(RangeStart + sub1.i0, Min(RangeStart + sub1.i1, RangeStop))

\* the range 1:3 split at (1, 3): the split reaches past the end
C20_Witness ==
    /\ UnitStepRange
    /\ RangeStart = 1
    /\ config_pp.stop = PyInt(3)
    /\ project_points.sites = <<1, 2>>
    /\ sub1.made /\ sub1.i0 = 1 /\ sub1.i1 = 3
    /\ sub1.sub.project_points.sites = <<2>>

\* a configuration that names a csv file and also gives a slice
FileAndSlice ==
    /\ {"file", "stop"} \subseteq config_pp.keys
    /\ ~config_pp.file_none
\* the sites column of the csv file, in the order of its rows
FileSites == [k \in 1..Len(config_pp.table) |-> config_pp.table[k].sites]

\* C21: when the configuration gives both a file and a slice, the constructed
\* ProjectPoints holds exactly the sites of the file, in the file's order, with
\* the file's configs; the slice is not evaluated (no read of the resource
\* length, the dict is left alone), nothing is raised and the
\* file-before-slice warning is issued.
C21_FileWinsWithWarning ==
    (FileAndSlice /\ stage = "built") =>
        /\ project_points.defined
        /\ project_points.sites = FileSites
        /\ project_points.df = config_pp.table
        /\ "file_and_slice" \in warnings
        /\ "multiple_sam_configs" \notin warnings
        /\ config_pp.stop = OneSlice.stop

\* a file of three sites given together with the slice 0:2
C21_Witness ==
    /\ FileAndSlice
    /\ stage = "built"
    /\ Len(config_pp.table) = 3
    /\ project_points.sites = <<11, 12, 13>>
    /\ warnings = {"file_and_slice"}

\* no site is wrapped by two of the ExecutionControls of the iteration
YieldedDisjoint ==
    \A a \in 1..Len(yielded) : \A b \in (a + 1)..Len(yielded) :
        \A x \in 1..Len(yielded[a].project_points.sites) :
            \A y \in 1..Len(yielded[b].project_points.sites) :
                yielded[a].project_points.sites[x] # yielded[b].project_points.sites[y]

\* C22 as stated: every ExecutionControl an iteration step yields has the
\* level of the ExecutionControl being iterated, and its sites are disjoint
\* from those of the other steps.
C22_SameLevelDisjoint ==
    /\ \A k \in 1..Len(yielded) : yielded[k].level = RootLevel
    /\ YieldedDisjoint

\* C22 amended: every ExecutionControl an iteration step of the supervisor
\* level yields has the level one below, "core", and its sites are disjoint
\* from those of the other steps of the iteration.
C22_LevelBelowDisjoint ==
    /\ \A k \in 1..Len(yielded) :
          yielded[k].level = "core" /\ yielded[k].level # RootLevel
    /\ YieldedDisjoint

\* an iteration over a range that has yielded two ExecutionControls
C22_Witness ==
    /\ "file" \notin config_pp.keys
    /\ Len(yielded) = 2
    /\ yielded[1].level = "core"
    /\ yielded[1].project_points.sites # <<>>
    /\ yielded[2].project_points.sites # <<>>

\* C23: a step that produces a child ExecutionControl, by __next__ or by
\* split, of the root or of a child, leaves the parent's resource file list
\* as it was and gives the child that same list.
C23_ChildCarriesResFiles ==
    [][/\ res_files' = res_files
       /\ (sub1.made => sub1'.sub.res_files = sub1.sub.res_files)
       /\ \A k \in 1..Len(yielded') : yielded'[k].res_files = res_files
       /\ (sub1'.made /\ sub1'.err = "") => sub1'.sub.res_files = res_files
       /\ (sub2'.made /\ sub2'.err = "") => sub2'.sub.res_files = sub1.sub.res_files
       /\ (sub2'.made /\ sub2'.err = "") => sub2'.sub.res_files = res_files]_vars

\* two resource files, a child split from the root and a child split from it
C23_Witness ==
    /\ res_files = 2
    /\ sub1.made /\ sub1.err = "" /\ sub1.sub.res_files = 2
    /\ sub2.made /\ sub2.err = "" /\ sub2.sub.res_files = 2
    /\ sub2.sub.project_points.sites # <<>>

\* the number of sites of the open-ended range start::step over a resource
\* of meta_len rows
OpenCount ==
    LET st == IF config_pp.step = PyNone THEN 1 ELSE config_pp.step.v
    IN Cardinality({k \in 0..(meta_len - 1) :
                       k >= RangeStart /\ (k - RangeStart) % st = 0})

\* a __next__ of the iteration over an open-ended range that computes a chunk
OpenEndedNext ==
    /\ OpenEndedRange(config_pp)
    /\ iter_i >= 0
    /\ iter_i' = iter_i + 1

\* C24 as stated: at every step over an open-ended range the meta length has
\* been read before, and without an explicit sites_per_core the chunk size
\* is ceil(meta length / p_tot), never the fallback.
C24_ChunkFromOracleCount ==
    [][OpenEndedNext =>
          /\ oracle_calls >= 1
          /\ ~ExplicitSpc => last_inc' = LeastMultiple(meta_len, Workers)
          /\ "sites_per_core_default" \notin warnings']_vars

\* C24 amended: at every step over an open-ended range the range is already
\* a site list resolved against the meta length, and without an explicit
\* sites_per_core the chunk size is ceil(sites * resource files / p_tot),
\* sites being the number of sites of the resolved range; the fallback and
\* its warning are not used.
C24_ChunkFromResolvedCount ==
    [][OpenEndedNext =>
          /\ oracle_calls >= 1
          /\ ~project_points.is_slice
          /\ Len(project_points.sites) = OpenCount
          /\ ~ExplicitSpc =>
                last_inc' = LeastMultiple(OpenCount * res_files, Workers)
          /\ "sites_per_core_default" \notin warnings']_vars

\* the range : over a meta of three rows, one resource file, two workers:
\* chunks of two sites, two steps
C24_Witness ==
    /\ OpenEndedRange(config_pp)
    /\ config_pp.start = PyNone /\ config_pp.step = PyNone
    /\ meta_len = 3 /\ res_files = 1 /\ Workers = 2
    /\ ~ExplicitSpc
    /\ last_inc = 2
    /\ Len(yielded) = 2
    /\ last_out = "StopIteration"

\* the first n units submitted, in submission order
FirstSubmitted(n) == [k \in 1..n |-> submitted[k]]

\* C25: the results of each gather are handed to obj.out in the order in
\* which the units of that round were submitted, whatever the order in which
\* the workers returned, and the gathers are accumulated one after the other:
\* all that obj.out has received, and what it and the disk hold, is a prefix
\* of the submission sequence.
C25_SubmissionOrderPerRound ==
    /\ Len(Handed) <= Len(submitted)
    /\ Handed = FirstSubmitted(Len(Handed))
    /\ \A k \in 1..Len(rounds) :
          \A a, b \in 1..Len(rounds[k].results) :
              a < b => rounds[k].results[a] < rounds[k].results[b]
    /\ pc # "reset" => disk \o obj_out = Handed
    /\ pc = "reset" => disk = Handed /\ disk = FirstSubmitted(Len(disk))

\* two rounds of two units, the second unit of each round returning before
\* the first; nothing flushed before the end
C25_Witness ==
    /\ completed = <<2, 1, 4, 3>>
    /\ Len(rounds) = 3
    /\ rounds[1].results = <<1, 2>>
    /\ rounds[2].results = <<3, 4>>
    /\ pc = "flush"
    /\ obj_out = <<1, 2, 3, 4>>

\* a step of a worker: a unit returns or raises
WorkerStep == fstate' # fstate /\ submitted' = submitted

\* C26 (step): obj.out changes only in a step of the control thread inside
\* gather_and_flush, taken when no submitted unit is still running; a worker
\* step changes neither obj.out nor the disk, whatever the order of the
\* worker steps.
C26_StepWritesAtGather ==
    /\ obj_out' # obj_out =>
          /\ pc \in {"gather", "reset"}
          /\ ~WorkerStep
          /\ \A u \in Units : fstate[u] # "pending"
          /\ \A k \in 1..Len(futures) : fstate[futures[k]] = "finished"
    /\ Len(obj_out') > Len(obj_out) =>
          pc = "gather" /\ obj_out' = obj_out \o futures /\ futures' = <<>>
    /\ WorkerStep => UNCHANGED <<obj_out, disk, rounds, futures, pc>>

\* C26: the accumulator is written by the control thread only, at a gather
\* after every unit of the round has completed.
C26_AccumulateAtGatherOnly == [][C26_StepWritesAtGather]_vars

\* the first round, returned out of order, is accumulated and a unit of the
\* second round is running
C26_Witness ==
    /\ pc = "loop"
    /\ Len(rounds) = 1
    /\ completed = <<2, 1>>
    /\ obj_out = <<1, 2>>
    /\ fstate[3] = "pending"

\* C27 (step): at a client.restart() no future is outstanding: every unit
\* submitted so far has returned, none is running or has raised, and each has
\* been gathered once and is held by obj.out or by the disk.
C27_StepRestartsIdle ==
    restarts' # restarts =>
        /\ futures = <<>>
        /\ \A u \in Units : fstate[u] \in {"new", "finished"}
        /\ \A k \in 1..Len(submitted) :
              /\ fstate[submitted[k]] = "finished"
              /\ Count(Handed, submitted[k]) = 1
              /\ Count(disk \o obj_out, submitted[k]) = 1
        /\ UNCHANGED <<fstate, futures, obj_out, disk, submitted>>

\* C27: the client is restarted only when no submitted unit is in flight or
\* ungathered.
C27_RestartOnlyWhenIdle == [][C27_StepRestartsIdle]_vars

\* a restart in the middle of a run: two units gathered, more to come
C27_Witness ==
    /\ restarts = 1
    /\ pc = "flush"
    /\ ~force_flush
    /\ Len(submitted) = 2
    /\ i < job_args.units
    /\ completed = <<1, 2>>

\* the number a string of decimal digits stands for
RECURSIVE DigitsValue(_)
DigitsValue(s) ==
    IF s = <<>> THEN 0
    ELSE 10 * DigitsValue(SubSeq(s, 1, Len(s) - 1))
           + (CHOOSE d \in 0..9 : Digit(d) = s[Len(s)])
IsDigits(s) == \A k \in 1..Len(s) : \E d \in 0..9 : Digit(d) = s[k]

\* C28: for every hours >= 0, walltime(hours) is a string HH:MM:SS with HH
\* the two digits of floor(hours), MM between 00 and 59, and SS = 00.
C28_ValidWalltime ==
    w_out # <<>> =>
        /\ Len(w_out) = 8
        /\ w_out[3] = ":" /\ w_out[6] = ":"
        /\ IsDigits(SubSeq(w_out, 1, 2))
        /\ IsDigits(SubSeq(w_out, 4, 5))
        /\ DigitsValue(SubSeq(w_out, 1, 2)) = w_hours \div HourParts
        /\ DigitsValue(SubSeq(w_out, 4, 5)) \in 0..59
        /\ SubSeq(w_out, 7, 8) = <<"0", "0">>

\* the constructor has returned a SmartParallelJob
Constructed == pc \notin {"idle", "args"} /\ exc # "ExecutionError"

\* C29 (state): the job's n_workers is the argument when the caller gave a
\* number other than 0, and os.cpu_count() when the argument is None or 0;
\* with no mem_util_lim argument the limit is 0.7: a gather of the loop
\* flushes at a sampled ratio of 70 percent or more and at no lower one.
C29_ResolvedAtConstruction ==
    Constructed =>
        /\ n_workers = IF job_args.n_workers.t = "int" /\ job_args.n_workers.v > 0
                       THEN job_args.n_workers.v ELSE cpu_count
        /\ n_workers >= 1
        /\ job_args.mem_util_lim = NotGiven =>
              /\ mem_util_lim * 10 = 7 * 100
              /\ \A k \in 1..Len(rounds) :
                    (RoundClosed(k) /\ ~rounds[k].forced) =>
                        (rounds[k].flushes = 1 <=> rounds[k].mem * 10 >= 7 * 100)

\* C29: the worker count is the caller's override, or the number of cores for
\* None or 0, it is set by the constructor and not changed by run(); the
\* memory limit defaults to 0.7.
C29_WorkerCountAndLimit ==
    /\ []C29_ResolvedAtConstruction
    /\ [][Constructed => n_workers' = n_workers]_vars

\* a job built with n_workers = 0 on two cores and no mem_util_lim, whose
\* first gather of two units sampled exactly 70 percent
C29_Witness ==
    /\ Constructed
    /\ job_args.n_workers = PyInt(0)
    /\ cpu_count = 2
    /\ n_workers = 2
    /\ job_args.mem_util_lim = NotGiven
    /\ Len(rounds) >= 1
    /\ rounds[1].results = <<1, 2>>
    /\ rounds[1].mem = 70
    /\ rounds[1].flushes = 1

\* a __next__ that entered the branch i < N and made a split
SplitStep == iter_i >= 0 /\ iter_i' = iter_i + 1

\* C30 (state): the k-th ExecutionControl of an iteration (k = 0, 1, ...)
\* with chunk size c wraps the sites at the positions k * c <= p < (k + 1) * c
\* of the site list, cut at its end, and is not empty; the cursor is at
\* (number of steps) * c.
C30_StepPositions ==
    /\ \A k \in 1..Len(yielded) :
          /\ yielded[k].project_points.sites
                = SitesAt(project_points.sites, (k - 1) * last_inc, k * last_inc)
          /\ yielded[k].project_points.sites # <<>>
    /\ iter_i >= 1 => last_site_ind = iter_i * last_inc

\* C30 (step): a __next__ that makes a split either returns it, or, when the
\* split has no sites, raises StopIteration whatever the count of steps; a
\* __next__ ends in a return or in StopIteration, never in another exception.
C30_StepStopsOnEmpty ==
    /\ SplitStep =>
          IF SitesAt(project_points.sites, last_site_ind, last_site_ind + last_inc') = <<>>
          THEN last_out' = "StopIteration" /\ yielded' = yielded
          ELSE last_out' = "yield" /\ Len(yielded') = Len(yielded) + 1
    /\ (iter_i >= 0 /\ iter_i' = iter_i /\ n_iter' = n_iter /\ last_out' # last_out) =>
          last_out' = "StopIteration" /\ yielded' = yielded

\* C30: step k of an iteration wraps the positions [k * c, min((k + 1) * c, n)),
\* and the iteration ends with StopIteration at the first empty split, also
\* before N steps.
C30_CursorIteration ==
    /\ []C30_StepPositions
    /\ [][C30_StepStopsOnEmpty]_vars

\* three sites in chunks of two, two resource files and two workers, N = 3:
\* two steps, then a third split that is empty and ends the iteration before
\* N steps were returned
C30_Witness ==
    /\ Len(project_points.sites) = 3
    /\ ExplicitSpc /\ last_inc = 2
    /\ res_files = 2 /\ Workers = 2
    /\ iter_i = 3
    /\ last_site_ind = 6
    /\ Len(yielded) = 2
    /\ Len(yielded[2].project_points.sites) = 1
    /\ last_out = "StopIteration"

\* C31: the iterator limit N of the ExecutionControl is
\* ceil(total sites / chunk size), the chunk size being the resolved
\* sites_per_core and the total the number of sites times the number of
\* resource files.
C31_LimitIsUnitCount ==
    (stage = "built" /\ project_points.defined /\ IterSites >= 1) =>
        N(config_exec, project_points, res_files)
           = LeastMultiple(IterSites * res_files,
                           sites_per_core(config_exec, project_points, res_files).value)

\* the units submitted and not yet gathered that are still running
InFlight == {u \in Units : fstate[u] = "pending"}

\* C32: at every point of run() the futures list (units submitted and not
\* yet gathered) holds at most n_workers futures, every running unit is in
\* that list, and so at most n_workers units are in flight.
C32_PendingAtMostWorkers ==
    Constructed =>
        /\ Len(futures) <= n_workers
        /\ \A u \in InFlight : InFutures(u)
        /\ Cardinality(InFlight) <= n_workers
        /\ pc = "loop" => Len(futures) < n_workers

\* two workers, two units submitted and both still running at the gather
C32_Witness ==
    /\ n_workers = 2
    /\ pc = "gather"
    /\ futures = <<3, 4>>
    /\ InFlight = {3, 4}
    /\ Len(rounds) = 1

\* the object given to the constructor lacks run() or flush()
ObjLacksMethod == ~job_args.obj_has_run \/ ~job_args.obj_has_flush

\* C33 (state): once the constructor has been called with an object that
\* lacks run() or flush(), it has raised ExecutionError, and no worker count
\* was set, no unit submitted or run, nothing gathered, handed to obj.out,
\* flushed or restarted.
C33_NothingDone ==
    (ObjLacksMethod /\ pc \notin {"idle", "args"}) =>
        /\ pc = "raised" /\ exc = "ExecutionError"
        /\ n_workers = 0 /\ i = 0
        /\ submitted = <<>> /\ futures = <<>> /\ completed = <<>>
        /\ \A u \in Units : fstate[u] = "new"
        /\ rounds = <<>> /\ obj_out = <<>> /\ disk = <<>> /\ restarts = 0

\* C33: an object without run() or flush() makes the constructor raise
\* ExecutionError, before anything else is done, and nothing follows; an
\* ExecutionError is raised for no other reason.
C33_RejectsBadObject ==
    /\ []C33_NothingDone
    /\ [](exc = "ExecutionError" => ObjLacksMethod)
    /\ [][exc = "ExecutionError" => UNCHANGED jvars]_vars

\* the constructor has raised for an object that has run() but no flush()
C33_Witness ==
    /\ job_args.obj_has_run /\ ~job_args.obj_has_flush
    /\ job_args.units >= 1
    /\ pc = "raised"
    /\ exc = "ExecutionError"

\* a __next__ call (no iter() in the step) on an iteration that has raised
\* StopIteration
NextAfterStop ==
    /\ last_out = "StopIteration"
    /\ n_iter' = n_iter
    /\ <<iter_i, last_site_ind, last_out, yielded>>' # <<iter_i, last_site_ind, last_out, yielded>>

\* C34: after a StopIteration every further __next__ raises StopIteration
\* again and returns no ExecutionControl, until __iter__ is called.
C34_StopIsAbsorbing ==
    [][/\ NextAfterStop => last_out' = "StopIteration" /\ yielded' = yielded
       /\ (last_out = "StopIteration" /\ last_out' # "StopIteration")
             => n_iter' = n_iter + 1 /\ iter_i' = 0]_vars

\* four sites in chunks of two, N = 4: after two steps the third split is
\* empty, and the __next__ after that StopIteration makes a fourth, empty too
C34_Witness ==
    /\ Len(project_points.sites) = 4
    /\ last_inc = 2
    /\ Len(yielded) = 2
    /\ iter_i = 4
    /\ last_site_ind = 8
    /\ last_out = "StopIteration"

\* the ProjectPoints of the ExecutionControls in seq, in order
PointsOf(seq) == [k \in 1..Len(seq) |-> seq[k].project_points]

\* C35 (state): an iteration started after one that ran to its StopIteration
\* returns, step by step, ExecutionControls with the same ProjectPoints as
\* that one did, and as many when it has ended itself.
C35_SameAsBefore ==
    prev_yielded # <<>> =>
        /\ Len(yielded) <= Len(prev_yielded[1])
        /\ PointsOf(yielded) = SubSeq(PointsOf(prev_yielded[1]), 1, Len(yielded))
        /\ last_out = "StopIteration" => Len(yielded) = Len(prev_yielded[1])

\* C35: __iter__ puts the cursor back to position 0, whatever the iteration
\* before it did, and a second iteration returns the same sequence of
\* ProjectPoints as the first.
C35_RepeatableIteration ==
    /\ []C35_SameAsBefore
    /\ [][n_iter' # n_iter =>
             iter_i' = 0 /\ last_site_ind' = 0 /\ yielded' = <<>>]_vars
    /\ []((n_iter >= 1 /\ Len(yielded) >= 1) =>
             yielded[1].project_points.sites
                = SitesAt(project_points.sites, 0, last_inc))

\* a second iteration that has ended, after a first one that returned two
\* ExecutionControls
C35_Witness ==
    /\ n_iter = 2
    /\ prev_yielded # <<>>
    /\ Len(prev_yielded[1]) = 2
    /\ Len(yielded) = 2
    /\ last_out = "StopIteration"

\* C36: a ProjectPoints constructed from a configuration with a 'stop' key
\* or with a 'file' that is not None holds a site list, also when the
\* configuration has 'file': None next to the slice.
C36_SitesDefined ==
    (stage = "built"
       /\ ("stop" \in config_pp.keys
             \/ ("file" \in config_pp.keys /\ ~config_pp.file_none))) =>
        project_points.defined

\* the list is an arithmetic progression: equal differences between neighbours
IsProgression(s) ==
    \A k \in 1..(Len(s) - 1) : s[k + 1] - s[k] = s[2] - s[1]

\* the sites of slice(a, b, d), counted up or down from a, short of b
RECURSIVE Expansion(_, _, _, _)
Expansion(a, b, d, fuel) ==
    IF fuel = 0 \/ d = 0 \/ (d > 0 /\ a >= b) \/ (d < 0 /\ a <= b) THEN <<>>
    ELSE <<a>> \o Expansion(a + d, b, d, fuel - 1)

\* C37: for every non-empty site list sites_as_slice raises nothing; for an
\* arithmetic progression (a single site included) it returns a slice whose
\* expansion is the list, for any other list the list itself.
C37_SliceOrList ==
    sas_out.made =>
        /\ sas_out.err = ""
        /\ IF IsProgression(sas_sites)
           THEN /\ sas_out.is_slice
                /\ Expansion(sas_out.start, sas_out.stop, sas_out.step, MaxCsv + 1)
                      = sas_sites
           ELSE ~sas_out.is_slice /\ sas_out.sites = sas_sites

\* C38 (state): an ExecutionControl that an iteration of the supervisor
\* level has yielded is at level 'core'; every __iter__ and every __next__
\* with _i below the limit on it has raised KeyError, none has returned.
C38_ChildRaises ==
    child_k # 0 =>
        /\ yielded[child_k].level = "core"
        /\ RootLevel = "supervisor"
        /\ child_out \in {"KeyError", "StopIteration"}
        /\ child_out = "StopIteration" =>
              child_i >= LeastMultiple(Len(yielded[child_k].project_points.sites)
                                         * yielded[child_k].res_files,
                                         p_tot(yielded[child_k].raw))

\* C38: iter() of a 'core' level ExecutionControl raises KeyError, and no
\* call on it returns a sub ExecutionControl.
C38_CoreCannotIterate ==
    /\ []C38_ChildRaises
    /\ [][child_k' # child_k => child_out' = "KeyError" /\ child_i' = 0]_vars

\* the second ExecutionControl of an iteration, iterated after the
\* iteration has ended, and a next() called on it after the KeyError
C38_Witness ==
    /\ Len(yielded) = 2
    /\ last_out = "StopIteration"
    /\ child_k = 2
    /\ child_i = 1
    /\ child_out = "KeyError"

\* qsub / sbatch has returned (out, err)
QueueCallReturned == q_pc \in {"return", "done"} /\ q_ret.made

ResultPerItem == [k \in 1..Len(ef_iter) |-> fun[ef_iter[k]]]
SomeItemRaises == \E k \in 1..Len(ef_iter) : ef_iter[k] = "bad"

\* C40 (state): gather is called once and only after every item of the
\* iterator was submitted; a returned list holds the result of each item in
\* iteration order; with an item that raises nothing is returned, and what
\* is raised is the exception of such an item.
C40_GatherState ==
    /\ ef_gathers = (IF ef_pc \in {"gather", "returned", "raised"} THEN 1 ELSE 0)
    /\ ef_gathers = 1 => Len(ef_futures) = Len(ef_iter)
    /\ ef_ret.made <=> ef_pc = "returned"
    /\ ef_ret.made => ef_ret.results = ResultPerItem
    /\ SomeItemRaises => ~ef_ret.made
    /\ ef_pc = "raised" => ef_ret.exc \in 1..Len(ef_iter) /\ ef_iter[ef_ret.exc] = "bad"

\* C40: execute_futures submits every item before its one gather and
\* returns one result per item in iteration order, or raises the exception
\* of an item and returns nothing; no item is submitted after the gather.
C40_SubmitAllThenGather ==
    /\ []C40_GatherState
    /\ [][ef_gathers = 1 => Len(ef_futures') = Len(ef_futures)]_vars

\* three items with different results, completed by the workers in another
\* order than submitted, the last one first
C40_Witness ==
    /\ ef_pc = "returned"
    /\ Len(ef_iter) = 3
    /\ ef_iter[1] # ef_iter[3]
    /\ ef_order[1] = 3
    /\ ef_ret.made /\ Len(ef_ret.results) = 3

====
